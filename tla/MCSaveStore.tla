----------------------------- MODULE MCSaveStore -----------------------------
(* SaveStore with a path that may be a file or a folder with a file in it.     *)
EXTENDS SaveStore

CONSTANTS d, x
DirectoryOverFile == {<<d, x>>}
==============================================================================

---------------------------- MODULE MCFolderScan ----------------------------
(***************************************************************************)
(* A remote tree for FolderScan: a folder with a subfolder and a folder of *)
(* an unsafe name, and in the subfolder two files.  The path of one of     *)
(* them is too long below "top", and its beginning is the path of the      *)
(* other; below "sub" it fits.                                             *)
(***************************************************************************)
EXTENDS FolderScan

MCTree == [d \in {"top", "sub", "bad"} |->
             CASE d = "top" -> {"bad", "sub"}
               [] d = "sub" -> {"f1", "f1long"}
               [] d = "bad" -> {"f2"}]

MCCut == [d \in Dirs |-> [f \in Files |-> IF d = "top" /\ f = "f1long" THEN "f1" ELSE f]]

=============================================================================

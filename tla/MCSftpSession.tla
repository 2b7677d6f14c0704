--------------------------- MODULE MCSftpSession ---------------------------
(***************************************************************************)
(* SftpSession for TLC: targets are interchangeable, and so are keys.      *)
(***************************************************************************)
EXTENDS SftpSession, TLC

Symmetric == Permutations(Targets) \cup Permutations(Keys)

============================================================================

----------------------------- MODULE MCFileLock -----------------------------
(***************************************************************************)
(* Instances of FileLock for TLC.  p1 and p2 share a host and an account;  *)
(* p3 runs elsewhere, or under another account of the same host.           *)
(***************************************************************************)
EXTENDS FileLock, TLC

CONSTANTS p1, p2, p3, a1, a2, b1, c1, t1, t2, t3, t4, h1, h2, root, user

\* p1 runs two objects (a lifecycle and a component it hands its token to).
MCProcOf == (a1 :> p1) @@ (a2 :> p1) @@ (b1 :> p2) @@ (c1 :> p3)
TwoHosts == (p1 :> h1) @@ (p2 :> h1) @@ (p3 :> h2)
OneUser == (p1 :> user) @@ (p2 :> user) @@ (p3 :> user)
TokenSymmetry == Permutations(Token)
=============================================================================

---------------------------- MODULE MCFileServer ----------------------------
(***************************************************************************)
(* The instance of the file server that TLC checks: two of three names     *)
(* start at the same place of the table, and one client is a server that   *)
(* makes and opens its channel while the other calls the single functions. *)
(***************************************************************************)
EXTENDS FileServer, TLC

CONSTANTS c1, c2, p, q, r

UsesOfTwo ==
    (c1 :> {"mkopenchan", "xopen", "sendpath"})
    @@ (c2 :> {"mkchan", "rmchan", "open", "mkdir"})
HashOfNames == (p :> 0) @@ (q :> 0) @@ (r :> 2)
=============================================================================

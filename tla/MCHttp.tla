------------------------------- MODULE MCHttp -------------------------------
(* Http for TLC: a good request of each kind, and one with each defect.     *)
EXTENDS Http

Post == [head |-> 2, parses |-> TRUE, method |-> "POST", te |-> FALSE, cl |-> 1, auth |-> TRUE,
         ctype |-> TRUE, path |-> "pub", decodes |-> TRUE, space |-> "plain", nul |-> FALSE]
Get(p) == [Post EXCEPT !.method = "GET", !.cl = -1, !.path = p]

Good == {Post, [Post EXCEPT !.cl = 0], Get("sub"), [Get("sub") EXCEPT !.space = "lvc"], Get("latest")}

BadPosts == {[Post EXCEPT !.head = 3], [Post EXCEPT !.parses = FALSE], [Post EXCEPT !.te = TRUE],
             [Post EXCEPT !.cl = -1], [Post EXCEPT !.cl = 2], [Post EXCEPT !.auth = FALSE],
             [Post EXCEPT !.ctype = FALSE], [Post EXCEPT !.decodes = FALSE],
             [Post EXCEPT !.path = "other"], [Post EXCEPT !.space = "lvc"],
             [Post EXCEPT !.space = "stats"], [Post EXCEPT !.nul = TRUE]}
BadGets == {[Get("sub") EXCEPT !.cl = 1], [Get("sub") EXCEPT !.auth = FALSE], Get("other"),
            [Get("sub") EXCEPT !.decodes = FALSE], [Get("latest") EXCEPT !.space = "lvc"]}

\* One client streams, the other sends anything.
CONSTANT Streamer
RequestsOf == [k \in Clients |-> IF k = Streamer THEN {Get("sub"), [Get("sub") EXCEPT !.space = "lvc"]}
                                 ELSE Good \cup BadPosts \cup BadGets]
OnAndOff == {<<TRUE, TRUE>>, <<FALSE, FALSE>>}
=============================================================================

----------------------- MODULE MCSubscriptionManager -----------------------
(* Two files: going from either to the other removes a security, adds one and
   changes the subtypes of the one both list.  Three modification times: the
   file can be replaced twice while run() is inside one cycle, and go back to
   an older time.  Two connections, the second one landing at any step. *)
EXTENDS SubscriptionManager, TLC

CONSTANTS s1, s2, s3, t1, t2

MCFiles == {s1 :> {t1} @@ s2 :> {t1, t2},
            s2 :> {t1} @@ s3 :> {t2}}
=============================================================================

----------------------------- MODULE MCMultiHttp -----------------------------
(***************************************************************************)
(* Instances of MultiHttp for TLC: five requests of all verbs in any order *)
(* and a pool that is smaller.                                             *)
(***************************************************************************)
EXTENDS MultiHttp, TLC

CONSTANTS get, head, post, put, delete

FiveVerbs == (get :> "GET") @@ (head :> "HEAD") @@ (post :> "POST")
             @@ (put :> "PUT") @@ (delete :> "DELETE")
==============================================================================

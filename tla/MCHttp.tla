------------------------------- MODULE MCHttp -------------------------------
(* An instance of Http for TLC: requests to one host, two of the same URL. *)
EXTENDS Http, TLC

CONSTANTS r1, r2, r3, r4

Url3 == r1 :> "u1" @@ r2 :> "u2" @@ r3 :> "u2"
Host3 == r1 :> "h" @@ r2 :> "h" @@ r3 :> "h"
Url4 == Url3 @@ (r4 :> "u3")
Host4 == Host3 @@ (r4 :> "g")
============================================================================

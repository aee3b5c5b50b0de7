----------------------------- MODULE DnsService -----------------------------
(***************************************************************************)
(* What Dillo's resolver promises its clients, whatever happens inside it: *)
(* a request that has not been answered is answered once, with the         *)
(* addresses of the host it asked for or with a failure; a host whose      *)
(* addresses are known is answered at once, and never with a failure.  The *)
(* promise is not kept for a host that has been spoilt: its addresses may  *)
(* be those of another host, and one of its clients may be refused while   *)
(* another is answered.                                                    *)
(***************************************************************************)

CONSTANTS
  Hosts,     \* host names; a host also stands for the list of its addresses
  Clients,   \* the cb_data values of requests
  NULL,      \* no list of addresses
  Waiting    \* the request has not been answered

VARIABLES
  known,    \* the hosts whose addresses are known
  spoilt,   \* the hosts for which nothing but an answer is promised
  asked,    \* the host a client asked for last
  answer    \* what its callback was called with

vars == <<known, spoilt, asked, answer>>

Init == /\ known = {} /\ spoilt = {}
        /\ asked = [k \in Clients |-> NULL]
        /\ answer = [k \in Clients |-> NULL]

\* What a client that asked for h may be told.
Addresses(h) == IF h \in spoilt THEN Hosts ELSE {h}

Ask(k, h) ==
  /\ answer[k] # Waiting
  /\ asked' = [asked EXCEPT ![k] = h]
  /\ \E a \in IF h \in known THEN Addresses(h) ELSE {Waiting} :
       answer' = [answer EXCEPT ![k] = a]
  /\ UNCHANGED <<known, spoilt>>

\* Addresses become known because somebody is waiting for them.
Learn(h) == /\ \E k \in Clients : answer[k] = Waiting /\ asked[k] = h
            /\ h \notin known
            /\ known' = known \cup {h}
            /\ UNCHANGED <<spoilt, asked, answer>>

Tell(k) == /\ answer[k] = Waiting
           /\ asked[k] \in known \cup spoilt
           /\ \E a \in Addresses(asked[k]) : answer' = [answer EXCEPT ![k] = a]
           /\ UNCHANGED <<known, spoilt, asked>>

Refuse(k) == /\ answer[k] = Waiting
             /\ asked[k] \notin known \/ asked[k] \in spoilt
             /\ answer' = [answer EXCEPT ![k] = NULL]
             /\ UNCHANGED <<known, spoilt, asked>>

Spoil(h) == /\ spoilt' = spoilt \cup {h}
            /\ UNCHANGED <<known, asked, answer>>

Next == \/ \E k \in Clients : Tell(k) \/ Refuse(k) \/ \E h \in Hosts : Ask(k, h)
        \/ \E h \in Hosts : Learn(h) \/ Spoil(h)

Spec == Init /\ [][Next]_vars
============================================================================

------------------------ MODULE ContinuationPromise ------------------------
(***************************************************************************)
(* What the ChatGPT continuation promises of every message it is given     *)
(* (chatgpt_bridge.rs): Send is clicked only while the message is          *)
(* authorised, at most once, and neither a message that was sent nor one   *)
(* that was closed is ever offered again, a restart included.              *)
(***************************************************************************)
CONSTANT Jobs

VARIABLES
    phase,  \* "unknown", "waiting", "authorised" (Send may be clicked),
            \* "failed" (given up or expired) "delivered" or "closed" (withdrawn)
    sent    \* whether Send was clicked for the message

Init == phase = [j \in Jobs |-> "unknown"] /\ sent = [j \in Jobs |-> FALSE]

Moves == {<<"unknown", "waiting">>, <<"waiting", "authorised">>,
          <<"waiting", "failed">>, <<"waiting", "closed">>, <<"authorised", "waiting">>,
          <<"authorised", "failed">>, <<"authorised", "delivered">>}

\* A handler of the bridge moves messages on. One that was sent is not taken back,
\* and one that was not is not said to be delivered.
Advance ==
    /\ \A j \in Jobs : phase'[j] # phase[j] =>
          /\ <<phase[j], phase'[j]>> \in Moves
          /\ phase[j] = "authorised" => (sent[j] <=> phase'[j] = "delivered")
    /\ UNCHANGED sent

\* The extension clicks Send.
Click == \E j \in Jobs :
    /\ phase[j] = "authorised" /\ ~sent[j]
    /\ sent' = [sent EXCEPT ![j] = TRUE]
    /\ UNCHANGED phase

\* The bridge restarts from its store, which may be older than what it knew, but
\* does not offer what was authorised, delivered or withdrawn.
Recover ==
    /\ \A j \in Jobs : phase'[j] = "waiting" => phase[j] \in {"waiting", "failed"}
    /\ UNCHANGED sent

Next == Advance \/ Click \/ Recover

Spec == Init /\ [][Next]_<<phase, sent>>
=============================================================================

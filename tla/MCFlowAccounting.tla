-------------------------- MODULE MCFlowAccounting --------------------------
(* Instances of FlowAccounting for TLC. *)
EXTENDS FlowAccounting, TLC

\* Connections are interchangeable in everything the safety runs check.
Symm == Permutations(Conn)

Works == [sleeps |-> FALSE, prompt |-> TRUE, throws |-> FALSE, fallback |-> {"sample"}]
Lags == [sleeps |-> FALSE, prompt |-> FALSE, throws |-> FALSE, fallback |-> {"fails"}]

\* The stream delivers promptly and the one-shot works.
Prompt == {Works}
\* That, or rows come late and the one-shot always fails.
PromptOrLate == {Works, Lags}
\* Rows may come after a one-shot sample that is newer.
Racing == {[Works EXCEPT !.prompt = FALSE]}
\* The machine sleeps, all else works.
Sleeping == {[Works EXCEPT !.sleeps = TRUE]}
\* Everything may go wrong.
Awry == {[sleeps |-> TRUE, prompt |-> FALSE, throws |-> TRUE,
          fallback |-> {"sample", "fails"}]}
=============================================================================

--------------------------- MODULE MCJobLifecycle ---------------------------
(***************************************************************************)
(* JobLifecycle for TLC.  Slots are interchangeable: no action or safety   *)
(* property names one, so they may be permuted.                            *)
(***************************************************************************)
EXTENDS JobLifecycle, TLC

SlotSymmetry == Permutations(Slots)

Request(provider, urls, valid, user) ==
    [provider |-> provider, urls |-> urls, valid |-> valid, user |-> user]

\* A Harmony plan with a fallback, an AppEEARS sample (no fallback), a direct
\* OPeNDAP plan that runs as the service account, and a legacy row whose spec
\* no longer parses.
EveryRequest == {Request("harmony", TRUE, TRUE, TRUE),
                 Request("appeears", FALSE, TRUE, TRUE),
                 Request("opendap", TRUE, TRUE, FALSE),
                 Request("harmony", FALSE, FALSE, TRUE)}

\* The providers whose every upstream outcome poll_job understands.
NoSample == {q \in EveryRequest : q.provider # "appeears"}

OneHarmony == {Request("harmony", FALSE, TRUE, TRUE)}
OneSample  == {Request("appeears", FALSE, TRUE, TRUE)}
=============================================================================

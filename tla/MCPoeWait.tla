----------------------------- MODULE MCPoeWait -----------------------------
(* Instances of PoeWait for TLC.                                           *)
EXTENDS PoeWait

\* The statuses of the client tests: both spellings, a status the client does
\* not know, and failures before and after submission.
Changes == {<<"submitting", "retrying">>, <<"retrying", "submitted">>,
            <<"submitting", "confirming">>, <<"submitted", "confirming">>,
            <<"submitting", "permanent_failure">>, <<"confirming", "failed">>,
            <<"confirming", "confirmed">>}
=============================================================================

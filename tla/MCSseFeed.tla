----------------------------- MODULE MCSseFeed -----------------------------
(* Three rows: two job events of the page's run around one of another        *)
(* organisation, so that a batch of two cuts a poll short.                   *)
EXTENDS SseFeed
MCEventOrg == <<"ours", "theirs", "ours">>
MCEventRun == <<"run", "other", "run">>
MCPageOrg == [p \in Pages |-> "ours"]
MCPageRun == [p \in Pages |-> "run"]
=============================================================================

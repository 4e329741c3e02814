--------------------------- MODULE MCQuotaLedger ---------------------------
(* One holder of each kind: an upload's column, a full transcription's column *)
(* and one stream grant.                                                     *)
EXTENDS QuotaLedger

CONSTANTS a1, f1, g1
MCAsync == {a1}
MCFull == {f1}
MCGrants == {g1}
MCLimits == {1}
=============================================================================

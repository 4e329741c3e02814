---------------------------- MODULE MCFundingLedger ----------------------------
EXTENDS FundingLedger

CONSTANTS a, b

MCAmount == [o \in Orders |-> 2]
=============================================================================

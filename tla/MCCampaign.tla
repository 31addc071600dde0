----------------------------- MODULE MCCampaign -----------------------------
EXTENDS Campaign

MCNode == 1 .. 3
MCViews == {{1, 2}, {2, 3}, {1, 2, 3}}
MCMaxGenNum == 4
MCProposable == [num : 1 .. MCMaxGenNum, members : SUBSET MCNode]
=============================================================================

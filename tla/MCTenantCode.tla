---------------------------- MODULE MCTenantCode ----------------------------
EXTENDS TenantCode

CONSTANTS o1, o2

Row(s, t) == [id |-> Old, status |-> s, at |-> t]

\* An empty lane, one upload, and an upload with its predecessor.
Lanes ==
    {[v \in Versions |-> IF v \in DOMAIN h THEN h[v] ELSE NoRow] :
        h \in {<< >>, <<Row("live", 1)>>, <<Row("rolled_back", 1), Row("live", 2)>>}}

OneUpload == {[v \in Versions |-> IF v = 1 THEN Row("live", 1) ELSE NoRow]}

=============================================================================

--------------------------- MODULE MCRenewalGraph ---------------------------
EXTENDS EvidenceGraph

\* Three subscriptions: a short period of 7 days with T-2 snapshots, a window of 2 days, retries for 2 days.
Life(p, t, e, b, h, o) == [plan |-> p, renewal |-> t, ends |-> e, back |-> b, hits |-> h, off |-> o]
Ends == {<<"renew", 0>>, <<"cancel", 1>>, <<"cancel", 2>>, <<"cancel", 3>>, <<"fail", 0>>}

First == {Life("pro", t, e[1], e[2], h, o) :
            t \in {3, 5}, e \in Ends, h \in {{}, {3}, {1, 4}}, o \in {None, 2, 4}}
Second == {Life("pro", 5, e[1], e[2], h, None) : e \in Ends \ {<<"cancel", 2>>}, h \in {{2}, {2, 3}}}
Third == {Life(p, 7, e[1], e[2], {5}, None) : p \in {"pro", "ultra"}, e \in Ends \ {<<"cancel", 1>>, <<"cancel", 2>>}}

SmallWorlds == {<<a, b, c>> : a \in First, b \in Second, c \in Third}
=============================================================================

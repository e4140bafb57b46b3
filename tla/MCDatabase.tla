------------------------------ MODULE MCDatabase ------------------------------
(***************************************************************************)
(* A small instance, for TLC, of Database and of Delivery, which says what *)
(* commands write into that file.  The two share no variable and every     *)
(* property reads the variables of one of them, so that an interleaving of *)
(* both shows nothing that one of them alone does not: each moves while    *)
(* the other is in its initial state.                                      *)
(***************************************************************************)
EXTENDS Database, Delivery

CONSTANTS p1, p2, c0, c1, b1, n1, n2, u1, k1, k2, i1, i2, g1, g2, s1, w1

TwoProcesses == {p1, p2}
TwoContents == {c0, c1}
OneBackup  == {b1}
TwoNames == {n1, n2}
OneUrl == {u1}
OneBranch == {"main"}
TwoCommits == {k1, k2}
TwoImages == {i1, i2}
TwoDigests == {g1, g2}
OneSystem == {s1}

Document(n, s, i, v, w) ==
    [valid |-> TRUE, name |-> n, system |-> s, image |-> i, visibility |-> v, domain |-> w]

\* One name with two specifications, two names that want one domain.
ThreeDocuments ==
    {Document(n1, s1, i1, "public", w1), Document(n1, Nothing, i2, "internal", Nothing),
     Document(n2, s1, i1, "public", w1)}

SomeRequests == {<<"deploy", n1, "main">>, <<"deploy", n1>>, <<"version">>, <<"import", u1>>}

\* Of the initial states of each, the one the other moves in.
IsInitialized == live = c0 /\ backups = [b \in Backups |-> "missing"]
IsUnbuilt == \A i \in Images : tags[i][k2] = Nothing

StorageInit == DbInit /\ DeliveryInit /\ (IsInitialized \/ IsUnbuilt)

StorageNext ==
    \/ requests = 0 /\ DeliveryInit /\ IsUnbuilt /\ DbNext /\ UNCHANGED deliveryVars
    \/ IsInitialized /\ DbInit /\ DeliveryNext /\ UNCHANGED dbvars

StorageSpec ==
    /\ StorageInit /\ [][StorageNext]_<<dbvars, deliveryVars>>
    /\ \A p \in Processes : WF_dbvars(Step(p))

===============================================================================

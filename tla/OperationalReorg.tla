--------------------------- MODULE OperationalReorg ---------------------------
(* OperationalDaemon on a chain that remembers which blocks were ever final,  *)
(* and whether a reorganisation replaced one of them.                         *)
EXTENDS OperationalDaemon

VARIABLES
    settled,        \* history: heights whose block had the confirmations of finality
    shallow         \* history: whether no reorganisation replaced one of these

depths == <<settled, shallow>>

Deep(branch) == {h \in DOMAIN branch : h + Final <= Len(branch) + 1}

DepthsInit == settled = Deep(best) /\ shallow = TRUE

Remember ==
    /\ settled' = settled \cup Deep(best')
    /\ shallow' = (shallow /\ \A h \in settled : h \in DOMAIN best' /\ best'[h] = best[h])

DepthsSpec == Init /\ DepthsInit /\ [][Next /\ Remember]_<<vars, depths>>

\* As long as no reorganisation replaces a block that had the confirmations of a
\* final transaction, a confirmed attempt names the block that holds its
\* transaction, although the two are read one after the other.
ConfirmedWhereMined ==
    shallow =>
        \A t \in Txs : In(t, {"confirmed"}) =>
            Mined(t) /\ attempt[t].block = BlockAt(minedAt[t])
=============================================================================

-------------------------- MODULE MysqlConnProofs --------------------------
(***************************************************************************)
(* Proofs about MysqlConn, for any clients, connections and statements.    *)
(***************************************************************************)
EXTENDS MysqlConn, TLAPS

LEMMA TypeInit == Init => TypeOK
BY DEF Init, TypeOK, Types, NoResult

\* The steps of the pool and of the network.
LEMMA TypePool ==
    ASSUME TypeOK, NEW k \in Conns, Create(k) \/ Delete(k) \/ Disconnect(k)
    PROVE  TypeOK'
<1> USE DEF TypeOK, Types
<1>1. CASE Create(k)
    BY <1>1 DEF Create, objectVars, serverVars
<1>2. CASE Delete(k)
    BY <1>2 DEF Delete, Freespace, NoResult
<1>3. CASE Disconnect(k)
    BY <1>3 DEF Disconnect, objectVars
<1>4. QED
    BY <1>1, <1>2, <1>3

\* The steps of a client.
LEMMA TypeClient ==
    ASSUME TypeOK, NEW k \in Conns, NEW c \in Clients,
           \/ Take(c, k) \/ GiveBack(c, k)
           \/ Query(c, k) \/ NextRow(c, k)
           \/ Transaction(c, k) \/ Commit(c, k) \/ Rollback(c, k)
    PROVE  TypeOK'
<1> USE DEF TypeOK, Types
<1>1. CASE Take(c, k)
    BY <1>1 DEF Take, serverVars
<1>2. CASE GiveBack(c, k)
    BY <1>2 DEF GiveBack, objectVars, serverVars
<1>3. CASE Query(c, k)
    <2>1. m_res' \in [Conns -> [by : Clients \cup {Nobody}, rows : Nat]]
        BY <1>3 DEF Query, Freespace, NoResult
    <2>2. m_row' \in [Conns -> {"null", "row", "freed"}]
        BY <1>3 DEF Query, RowAfterFree
    <2>3. QED
        BY <1>3, <2>1, <2>2 DEF Query, serverVars
<1>4. CASE NextRow(c, k)
    <2>1. m_res' \in [Conns -> [by : Clients \cup {Nobody}, rows : Nat]]
        <3>1. m_res[k] \in [by : Clients \cup {Nobody}, rows : Nat]
            OBVIOUS
        <3>2. CASE m_res' = m_res
            BY <3>2
        <3>3. CASE m_res[k].rows # 0 /\ m_res' = [m_res EXCEPT ![k].rows = @ - 1]
            <4>q. m_res[k].rows \in Nat /\ m_res[k].rows # 0
                BY <3>1, <3>3
            <4>1. m_res[k].rows - 1 \in Nat
                <5> DEFINE n == m_res[k].rows
                <5> HIDE DEF n, TypeOK
                <5>1. n \in Nat /\ n # 0
                    BY <4>q DEF n
                <5>2. n - 1 \in Nat
                    BY <5>1
                <5>3. QED
                    BY <5>2 DEF n
            <4>2. [m_res[k] EXCEPT !.rows = @ - 1] \in [by : Clients \cup {Nobody}, rows : Nat]
                BY <3>1, <4>1
            <4>3. m_res' = [m_res EXCEPT ![k] = [m_res[k] EXCEPT !.rows = @ - 1]]
                BY <3>3
            <4>4. QED
                BY <4>2, <4>3
        <3>4. QED
            BY <1>4, <3>2, <3>3 DEF NextRow
    <2>2. m_row' \in [Conns -> {"null", "row", "freed"}] /\ used' \in [Conns -> {"nothing", "query", "next"}]
        BY <1>4 DEF NextRow
    <2>3. QED
        BY <1>4, <2>1, <2>2 DEF NextRow, serverVars
<1>5. CASE Transaction(c, k)
    BY <1>5 DEF Transaction, objectVars
<1>6. CASE Commit(c, k) \/ Rollback(c, k)
    BY <1>6 DEF Commit, Rollback, objectVars
<1>7. QED
    BY <1>1, <1>2, <1>3, <1>4, <1>5, <1>6

LEMMA TypeUpdate ==
    ASSUME TypeOK, NEW k \in Conns, NEW c \in Clients, NEW u \in Updates, Update(c, k, u)
    PROVE  TypeOK'
<1> USE DEF TypeOK, Types
<1>1. acked' \in SUBSET (Updates \X BOOLEAN)
    BY DEF Update
<1>2. link' \in [Conns -> {"up", "down"}] /\ committed' \subseteq Updates
    BY DEF Update, Execute
<1>3. open' \in [Conns -> SUBSET Updates]
    BY DEF Update, Execute
<1>4. QED
    BY <1>1, <1>2, <1>3 DEF Update, objectVars

LEMMA TypeStep == TypeOK /\ [Next]_vars => TypeOK'
<1> SUFFICES ASSUME TypeOK, [Next]_vars
             PROVE  TypeOK'
    OBVIOUS
<1>1. CASE UNCHANGED vars
    BY <1>1 DEF vars, objectVars, serverVars, TypeOK, Types
<1>2. CASE Next
    BY <1>2, TypePool, TypeClient, TypeUpdate DEF Next
<1>3. QED
    BY <1>1, <1>2

\* Every variable keeps its type, and only connections that exist are held.
THEOREM TypeCorrect == Spec => []TypeOK
BY TypeInit, TypeStep, PTL DEF Spec

-----------------------------------------------------------------------------
(***************************************************************************)
(* Results.                                                                *)
(***************************************************************************)
Own(k) ==
    holder[k] # Nobody =>
        /\ used[k] # "nothing" /\ m_res[k] # NoResult => m_res[k].by = holder[k]
        /\ used[k] = "next" => m_row[k] = "row" /\ m_res[k] # NoResult

\* A step that leaves a connection alone, its holder and its object.
LEMMA OwnUnchanged ==
    ASSUME NEW j \in Conns, Own(j), holder'[j] = holder[j], m_res'[j] = m_res[j],
           m_row'[j] = m_row[j], used'[j] = used[j]
    PROVE  Own(j)'
BY DEF Own

LEMMA OwnPool ==
    ASSUME TypeOK, NEW j \in Conns, Own(j), NEW k \in Conns,
           Create(k) \/ Delete(k) \/ Disconnect(k)
    PROVE  Own(j)'
<1>1. CASE Disconnect(k)
    BY <1>1, OwnUnchanged DEF Disconnect, objectVars
<1>2. CASE Create(k)
    <2>1. j # k \/ holder'[j] = Nobody
        BY <1>2 DEF Create, TypeOK
    <2>2. QED
        BY <1>2, <2>1, OwnUnchanged DEF Create, Own, TypeOK, Types
<1>3. CASE Delete(k)
    <2>1. j # k \/ holder'[j] = Nobody
        BY <1>3 DEF Delete
    <2>2. QED
        BY <1>3, <2>1, OwnUnchanged DEF Delete, Freespace, Own, TypeOK, Types
<1>4. QED
    BY <1>1, <1>2, <1>3

LEMMA OwnClient ==
    ASSUME TypeOK, NEW j \in Conns, Own(j), NEW k \in Conns, NEW c \in Clients,
           \/ Take(c, k) \/ GiveBack(c, k)
           \/ Query(c, k) \/ NextRow(c, k)
           \/ Transaction(c, k) \/ Commit(c, k) \/ Rollback(c, k)
           \/ \E u \in Updates : Update(c, k, u)
    PROVE  Own(j)'
<1>1. CASE \/ Transaction(c, k) \/ Commit(c, k) \/ Rollback(c, k)
           \/ \E u \in Updates : Update(c, k, u)
    BY <1>1, OwnUnchanged DEF Transaction, Commit, Rollback, Update, objectVars
<1>2. CASE Take(c, k)
    BY <1>2, OwnUnchanged DEF Take, Own, TypeOK, Types
<1>3. CASE GiveBack(c, k)
    BY <1>3, OwnUnchanged DEF GiveBack, objectVars, Own, TypeOK, Types
<1>4. CASE Query(c, k)
    <2>1. CASE j # k
        BY <1>4, <2>1, OwnUnchanged DEF Query, Freespace, TypeOK, Types
    <2>2. CASE j = k
        <3>1. used'[k] = "query" /\ holder'[k] = c
            BY <1>4 DEF Query, TypeOK, Types
        <3>2. m_res'[k] = NoResult \/ m_res'[k].by = c
            BY <1>4 DEF Query, Freespace, TypeOK, Types
        <3>3. QED
            BY <2>2, <3>1, <3>2 DEF Own
    <2>3. QED
        BY <2>1, <2>2
<1>5. CASE NextRow(c, k)
    <2>1. CASE j # k
        BY <1>5, <2>1, OwnUnchanged DEF NextRow, TypeOK, Types
    <2>2. CASE j = k /\ used'[k] = "query" /\ m_res' = m_res
        BY <1>5, <2>2 DEF NextRow, Own
    <2>3. CASE /\ j = k /\ m_res[k] # NoResult
               /\ m_res' = [m_res EXCEPT ![k].rows = @ - 1]
               /\ m_row'[k] = "row" /\ holder' = holder /\ used[k] # "nothing" /\ holder[k] = c
        <3>1. m_res[k] \in [by : Clients \cup {Nobody}, rows : Nat]
            BY DEF TypeOK, Types
        <3>2. m_res'[k].by = m_res[k].by
            BY <2>3, <3>1 DEF TypeOK, Types
        <3>3. holder[k] # Nobody => m_res'[k].by = holder[k] /\ m_res'[k] # NoResult
            BY <2>3, <3>2 DEF Own, NoResult
        <3>4. QED
            BY <2>3, <3>3 DEF Own
    <2>4. QED
        BY <1>5, <2>1, <2>2, <2>3 DEF NextRow, TypeOK, Types
<1>6. QED
    BY <1>1, <1>2, <1>3, <1>4, <1>5

\* Whoever holds a connection reads no row of another client: what query leaves is
\* its own, however many clients had the connection before.
THEOREM RowsAreOwnHolds == Spec => []RowsAreOwn
<1> DEFINE Inv == \A k \in Conns : Own(k)
<1>1. Init => Inv
    BY DEF Init, Own
<1>2. TypeOK /\ Inv /\ [Next]_vars => Inv'
    <2> SUFFICES ASSUME TypeOK, Inv, [Next]_vars, NEW j \in Conns
                 PROVE  Own(j)'
        OBVIOUS
    <2>1. CASE UNCHANGED vars
        BY <2>1 DEF vars, objectVars, Own
    <2>2. CASE Next
        BY <2>2, OwnPool, OwnClient DEF Next
    <2>3. QED
        BY <2>1, <2>2
<1>3. Inv => RowsAreOwn
    BY DEF Own, RowsAreOwn
<1>4. QED
    BY <1>1, <1>2, <1>3, TypeCorrect, PTL DEF Spec

-----------------------------------------------------------------------------
(***************************************************************************)
(* Statements.                                                             *)
(***************************************************************************)

\* Only transaction switches autocommit off.
AutocommitOn == \A k \in Conns : begun[k] \/ autocommit[k]

\* An update that returned true on a connection where nobody has begun a
\* transaction is in the database for good.
THEOREM DurableHolds == Spec => []DurableUnlessTransaction
<1> DEFINE Inv == AutocommitOn /\ DurableUnlessTransaction
<1>1. Init => Inv
    BY DEF Init, AutocommitOn, DurableUnlessTransaction
<1>2. TypeOK /\ Inv /\ [Next]_vars => Inv'
    <2> SUFFICES ASSUME TypeOK, Inv, [Next]_vars
                 PROVE  Inv'
        OBVIOUS
    <2> USE DEF AutocommitOn, DurableUnlessTransaction
    <2>1. CASE UNCHANGED vars
        BY <2>1 DEF vars, serverVars
    <2>2. ASSUME NEW k \in Conns, Create(k) \/ Delete(k) \/ Disconnect(k)
          PROVE  Inv'
        <3>1. UNCHANGED <<committed, acked>>
            BY <2>2 DEF Create, Delete, Disconnect
        <3>2. CASE UNCHANGED <<autocommit, begun>>
            BY <3>1, <3>2
        <3>3. CASE Create(k)
            <4>1. autocommit' = [autocommit EXCEPT ![k] = TRUE] /\ begun' = [begun EXCEPT ![k] = FALSE]
                BY <3>3 DEF Create
            <4>2. \A j \in Conns \ {k} : autocommit'[j] = autocommit[j] /\ begun'[j] = begun[j]
                BY <4>1 DEF TypeOK, Types
            <4>3. autocommit'[k] = TRUE
                BY <4>1 DEF TypeOK, Types
            <4>4. AutocommitOn'
                BY <4>2, <4>3, Zenon
            <4>5. QED
                BY <3>1, <4>4
        <3>4. QED
            BY <2>2, <3>2, <3>3 DEF Delete, Disconnect
    <2>3. ASSUME NEW k \in Conns, NEW c \in Clients,
                 Take(c, k) \/ GiveBack(c, k) \/ Query(c, k) \/ NextRow(c, k)
          PROVE  Inv'
        BY <2>3 DEF Take, GiveBack, Query, NextRow, serverVars
    <2>4. ASSUME NEW k \in Conns, NEW c \in Clients,
                 Transaction(c, k) \/ Commit(c, k) \/ Rollback(c, k)
          PROVE  Inv'
        BY <2>4 DEF Transaction, Commit, Rollback, TypeOK, Types
    <2>5. ASSUME NEW k \in Conns, NEW c \in Clients, NEW u \in Updates, Update(c, k, u)
          PROVE  Inv'
        <3>1. AutocommitOn'
            BY <2>5 DEF Update
        <3>2. committed \subseteq committed'
            BY <2>5 DEF Update, Execute
        <3>3. acked' = acked \/ (acked' = acked \cup {<<u, begun[k]>>} /\ Execute(k, u))
            BY <2>5 DEF Update
        <3>4. Execute(k, u) /\ begun[k] = FALSE => u \in committed'
            BY DEF Execute
        <3>5. QED
            BY <3>1, <3>2, <3>3, <3>4
    <2>6. QED
        BY <2>1, <2>2, <2>3, <2>4, <2>5 DEF Next
<1>3. QED
    BY <1>1, <1>2, TypeCorrect, PTL DEF Spec
=============================================================================

-------------------------- MODULE IoResourceProofs --------------------------
(***************************************************************************)
(* Proof, for any instances, loans, quotas and refusals, that a device     *)
(* mapping over a loan never outlives it.                                  *)
(*                                                                         *)
(* The inductive invariant: a mapping or a lease belongs to the task its   *)
(* instance runs, until that task's Io phase is through; a lease is over a *)
(* loan made to its driver that is neither revoked nor ended; a payload    *)
(* mapping has the one lease of its loan; and a request is over a payload  *)
(* mapping, so settling it finds a lease to count it on.                   *)
(***************************************************************************)
EXTENDS IoResource, TLAPS

Field == {"mmio_mappings", "irq_sources", "dma_pages", "dma_mappings",
          "outstanding_requests", "buffer_loans"}

DriverRow == [instance : Instances, occupancy : [Field -> Int]]

Phase == {"gone", "running", "Io", "Buffers", "Arena"}

LeaseRow == [id : Loans, driver : Nat, pages : Int, mappings : Int, requests : Int]

MappingRow == [id : Nat, driver : Nat, lease : Nat, direction : Directions \cup {"both"},
               pages : Int, requests : Int]

TypeOK ==
    /\ drivers \in Seq(DriverRow)
    /\ run \in [Instances -> [task : Nat, at : Phase]]
    /\ loans \in [Loans -> [at : {"none", "lent", "returned", "revoked", "ended"}, to : Nat]]
    /\ dma \in SUBSET MappingRow
    /\ leases \in SUBSET LeaseRow
    /\ next_dma \in Nat

\* The task an instance is running or retiring is a row of that instance.
Incumbent ==
    \A i \in Instances : run[i].at # "gone" =>
        run[i].task \in Tasks /\ Device(run[i].task) = i

\* The task its instance names, before its Io phase is through.
Holding(t) ==
    t \in Tasks /\ run[Device(t)].task = t /\ run[Device(t)].at \in {"running", "Io"}

Owned == (\A m \in dma : Holding(m.driver)) /\ (\A held \in leases : Holding(held.driver))

Leased ==
    /\ \A held \in leases :
           loans[held.id].to = held.driver /\ loans[held.id].at \in {"lent", "returned"}
    /\ \A a, b \in leases : a.id = b.id => a = b

Mapped ==
    \A m \in dma : m.lease # NoLease =>
        \E held \in leases : held.id = m.lease /\ held.driver = m.driver

Requested ==
    /\ \A m \in dma : m.id < next_dma
    /\ \A a, b \in dma : a.id = b.id => a.lease = b.lease
    /\ \A r \in requests : /\ r.mapping \in Nat /\ r.mapping < next_dma
                           /\ \A m \in dma : m.id = r.mapping => m.lease # NoLease

IInv == TypeOK /\ Incumbent /\ Owned /\ Leased /\ Mapped /\ Requested

-----------------------------------------------------------------------------
(* The driver rows. *)

\* e has the rows of d, charged differently.
Recharged(d, e) ==
    /\ e \in Seq(DriverRow)
    /\ Len(e) = Len(d)
    /\ \A u \in 1 .. Len(d) : e[u].instance = d[u].instance

LEMMA RowReplaced ==
    ASSUME NEW d \in Seq(DriverRow), NEW t \in 1 .. Len(d),
           NEW row \in DriverRow, row.instance = d[t].instance
    PROVE  Recharged(d, [d EXCEPT ![t] = row])
  <1> DEFINE e == [d EXCEPT ![t] = row]
  <1>1. e \in Seq(DriverRow) /\ Len(e) = Len(d)
    OBVIOUS
  <1>2. \A u \in 1 .. Len(d) : e[u] = IF u = t THEN row ELSE d[u]
    OBVIOUS
  <1> QED BY <1>1, <1>2 DEF Recharged

\* Charging one field of one row.
LEMMA Charged ==
    ASSUME NEW d \in Seq(DriverRow), NEW t \in 1 .. Len(d), NEW f \in Field, NEW n \in Int
    PROVE  Recharged(d, [d EXCEPT ![t].occupancy[f] = n])
  <1> DEFINE row == [d[t] EXCEPT !.occupancy[f] = n]
  <1>1. d[t] \in DriverRow
    OBVIOUS
  <1>2. [d[t].occupancy EXCEPT ![f] = n] \in [Field -> Int]
    BY <1>1 DEF DriverRow
  <1>3. row = [d[t] EXCEPT !.occupancy = [d[t].occupancy EXCEPT ![f] = n]]
    BY <1>1 DEF DriverRow
  <1>4. row \in DriverRow /\ row.instance = d[t].instance
    BY <1>1, <1>2, <1>3 DEF DriverRow
  <1>5. [d EXCEPT ![t].occupancy[f] = n] = [d EXCEPT ![t] = row]
    OBVIOUS
  <1> HIDE DEF row
  <1> QED BY <1>4, <1>5, RowReplaced

LEMMA RechargedTransitive ==
    ASSUME NEW a, NEW b, NEW c, Recharged(a, b), Recharged(b, c)
    PROVE  Recharged(a, c)
  BY DEF Recharged

LEMMA RechargedSelf ==
    ASSUME NEW d \in Seq(DriverRow)
    PROVE  Recharged(d, d)
  BY DEF Recharged

LEMMA TypesKept ==
    ASSUME IInv, Recharged(drivers, drivers'), UNCHANGED <<run, loans>>,
           dma' \in SUBSET MappingRow, leases' \in SUBSET LeaseRow, next_dma' \in Nat
    PROVE  TypeOK'
  BY DEF IInv, TypeOK, Recharged

\* Charging a running driver leaves every task where it was.
LEMMA Frame ==
    ASSUME IInv, Recharged(drivers, drivers'), run' = run
    PROVE  Incumbent' /\ (\A t : Holding(t)' <=> Holding(t))
  <1>1. Tasks' = Tasks
    BY DEF Recharged, Tasks
  <1>2. \A t \in Tasks : Device(t)' = Device(t)
    BY DEF Recharged, Tasks, Device
  <1>3. Incumbent'
    BY <1>1, <1>2 DEF IInv, Incumbent
  <1>4. \A t : Holding(t)' <=> Holding(t)
    BY <1>1, <1>2 DEF Holding
  <1> QED BY <1>3, <1>4

\* A task of a running instance: a row of the table, and one that may hold.
LEMMA RunningTask ==
    ASSUME IInv, NEW i \in Instances, Running(i)
    PROVE  /\ run[i].task \in Tasks /\ run[i].task \in Nat
           /\ Holding(run[i].task) /\ Device(run[i].task) = i
  <1>1. run[i].at = "running" /\ run[i].task \in Nat
    BY DEF Running, IInv, TypeOK
  <1>2. run[i].task \in Tasks /\ Device(run[i].task) = i
    BY <1>1 DEF IInv, Incumbent
  <1> QED BY <1>1, <1>2 DEF Holding

\* The numbers of a row.
LEMMA RowTypes ==
    ASSUME IInv, NEW t \in Tasks, NEW f \in Field
    PROVE  drivers[t] \in DriverRow /\ drivers[t].occupancy[f] \in Int
  <1>1. drivers[t] \in DriverRow
    BY DEF IInv, TypeOK, Tasks
  <1> QED BY <1>1 DEF DriverRow

\* A request that changes no mapping, lease or request.
LEMMA OnlyCharged ==
    ASSUME IInv, Recharged(drivers, drivers'),
           UNCHANGED <<run, loans, dma, leases, requests, next_dma>>
    PROVE  IInv'
  <1>1. Incumbent' /\ (\A t : Holding(t)' <=> Holding(t))
    BY Frame
  <1>2. TypeOK'
    BY DEF IInv, TypeOK, Recharged
  <1>3. Owned'
    BY <1>1 DEF IInv, Owned
  <1>4. Leased' /\ Mapped' /\ Requested'
    BY DEF IInv, Leased, Mapped, Requested
  <1> QED BY <1>1, <1>2, <1>3, <1>4 DEF IInv

LEMMA MapMmioInv ==
    ASSUME IInv, NEW i \in Instances, NEW base \in Bases, MapMmio(i, base)
    PROVE  IInv'
  <1> DEFINE t == run[i].task
             n == drivers[t].occupancy["mmio_mappings"] + 1
  <1>1. /\ Running(i) /\ drivers' = [drivers EXCEPT ![t].occupancy["mmio_mappings"] = n]
        /\ UNCHANGED <<run, loans, dma, leases, requests, next_dma>>
    BY DEF MapMmio
  <1>2. t \in Tasks /\ n \in Int
    BY <1>1, RunningTask, RowTypes DEF Field
  <1> HIDE DEF n
  <1>3. Recharged(drivers, drivers')
    BY <1>1, <1>2, Charged DEF IInv, TypeOK, Tasks, Field
  <1> QED BY <1>1, <1>3, OnlyCharged

LEMMA BindIrqInv ==
    ASSUME IInv, NEW i \in Instances, BindIrq(i)
    PROVE  IInv'
  <1> DEFINE t == run[i].task
             n == drivers[t].occupancy["irq_sources"] + 1
  <1>1. /\ Running(i) /\ drivers' = [drivers EXCEPT ![t].occupancy["irq_sources"] = n]
        /\ UNCHANGED <<run, loans, dma, leases, requests, next_dma>>
    BY DEF BindIrq
  <1>2. t \in Tasks /\ n \in Int
    BY <1>1, RunningTask, RowTypes DEF Field
  <1> HIDE DEF n
  <1>3. Recharged(drivers, drivers')
    BY <1>1, <1>2, Charged DEF IInv, TypeOK, Tasks, Field
  <1> QED BY <1>1, <1>3, OnlyCharged

\* Charging two fields of one row, as one EXCEPT.
LEMMA ChargedTwice ==
    ASSUME NEW d \in Seq(DriverRow), NEW t \in 1 .. Len(d),
           NEW f \in Field, NEW g \in Field, f # g, NEW n \in Int, NEW k \in Int
    PROVE  Recharged(d, [d EXCEPT ![t].occupancy[f] = n, ![t].occupancy[g] = k])
  <1> DEFINE e == [d EXCEPT ![t].occupancy[f] = n]
  <1>1. Recharged(d, e)
    BY Charged
  <1>2. e \in Seq(DriverRow) /\ Len(e) = Len(d)
    BY <1>1 DEF Recharged
  <1> HIDE DEF e
  <1>3. Recharged(e, [e EXCEPT ![t].occupancy[g] = k])
    BY <1>2, Charged
  <1>4. Recharged(d, [e EXCEPT ![t].occupancy[g] = k])
    BY <1>1, <1>3, RechargedTransitive
  <1> QED BY <1>4 DEF e

LEMMA QueueMapInv ==
    ASSUME IInv, NEW i \in Instances, QueueMap(i), IoAssumption
    PROVE  IInv'
  <1> DEFINE t == run[i].task
             m == Mapping(t, NoLease, "both", QueuePages)
             n == drivers[t].occupancy["dma_pages"] + QueuePages
             k == drivers[t].occupancy["dma_mappings"] + 1
  <1>1. /\ Running(i) /\ dma' = dma \cup {m} /\ next_dma' = next_dma + 1
        /\ UNCHANGED <<leases, requests, run, loans>>
    BY DEF QueueMap
  <1>2. drivers' = [drivers EXCEPT ![t].occupancy["dma_pages"] = n,
                                   ![t].occupancy["dma_mappings"] = k]
    BY DEF QueueMap
  <1>3. t \in Tasks /\ t \in Nat /\ Holding(t) /\ n \in Int /\ k \in Int
    BY <1>1, RunningTask, RowTypes DEF Field, IoAssumption
  <1> HIDE DEF n, k
  <1>4. Recharged(drivers, drivers')
    BY <1>2, <1>3, ChargedTwice DEF IInv, TypeOK, Tasks, Field
  <1>5. Incumbent' /\ (\A u : Holding(u)' <=> Holding(u))
    BY <1>1, <1>4, Frame
  <1>6. next_dma \in Nat /\ QueuePages \in Nat
    BY DEF IInv, TypeOK, IoAssumption
  <1>7. /\ m \in MappingRow /\ m.id = next_dma /\ m.lease = NoLease /\ m.driver = t
    BY <1>3, <1>6 DEF Mapping, MappingRow, NoLease
  <1> HIDE DEF m
  <1>8. TypeOK'
    BY <1>1, <1>4, <1>6, <1>7, SMTT(30) DEF IInv, TypeOK, Recharged
  <1>9. Owned' /\ Leased' /\ Mapped'
    BY <1>1, <1>3, <1>5, <1>7 DEF IInv, Owned, Leased, Mapped
  <1>10. Requested'
    <2>1. \A x \in dma : x.id \in Nat /\ x.id < next_dma
      BY DEF IInv, TypeOK, MappingRow, Requested
    <2>2. \A r \in requests : r.mapping \in Nat /\ r.mapping < next_dma
      BY DEF IInv, Requested
    <2>3. \A x \in dma' : x.id < next_dma'
      BY <1>1, <1>6, <1>7, <2>1
    <2>4. \A x, y \in dma' : x.id = y.id => x.lease = y.lease
      BY <1>1, <1>6, <1>7, <2>1 DEF IInv, Requested
    <2>5. \A r \in requests' : r.mapping \in Nat /\ r.mapping < next_dma'
      BY <1>1, <1>6, <2>2
    <2>6. \A r \in requests', x \in dma' : x.id = r.mapping => x.lease # NoLease
      BY <1>1, <1>6, <1>7, <2>2 DEF IInv, Requested
    <2> QED BY <2>3, <2>4, <2>5, <2>6 DEF Requested
  <1> QED BY <1>5, <1>8, <1>9, <1>10 DEF IInv

LEMMA ChargedThrice ==
    ASSUME NEW d \in Seq(DriverRow), NEW t \in 1 .. Len(d),
           NEW f \in Field, NEW g \in Field, NEW h \in Field, f # g, f # h, g # h,
           NEW n \in Int, NEW k \in Int, NEW l \in Int
    PROVE  Recharged(d, [d EXCEPT ![t].occupancy[f] = n, ![t].occupancy[g] = k,
                                  ![t].occupancy[h] = l])
  <1> DEFINE e == [d EXCEPT ![t].occupancy[f] = n, ![t].occupancy[g] = k]
  <1>1. Recharged(d, e)
    BY ChargedTwice
  <1>2. e \in Seq(DriverRow) /\ Len(e) = Len(d)
    BY <1>1 DEF Recharged
  <1> HIDE DEF e
  <1>3. Recharged(e, [e EXCEPT ![t].occupancy[h] = l])
    BY <1>2, Charged
  <1>4. Recharged(d, [e EXCEPT ![t].occupancy[h] = l])
    BY <1>1, <1>3, RechargedTransitive
  <1> QED BY <1>4 DEF e

\* Replacing the lease of a loan by one with its loan and driver, or adding the
\* first one over a loan lent to the driver.
LEMMA LeaseReplaced ==
    ASSUME IInv, NEW held \in LeaseRow, leases' = WithLease(held),
           \A x \in leases : x.id = held.id => x.driver = held.driver,
           loans[held.id].to = held.driver, loans[held.id].at \in {"lent", "returned"},
           UNCHANGED loans
    PROVE  /\ leases' \in SUBSET LeaseRow
           /\ Leased'
           /\ \A x \in leases : \E y \in leases' : y.id = x.id /\ y.driver = x.driver
           /\ \A y \in leases' : y = held \/ y \in leases
           /\ held \in leases'
  <1>1. /\ \A y \in leases' : y = held \/ (y \in leases /\ y.id # held.id)
        /\ held \in leases'
        /\ \A x \in leases : x.id # held.id => x \in leases'
    BY DEF WithLease
  <1>2. leases' \in SUBSET LeaseRow
    BY <1>1 DEF IInv, TypeOK
  <1>3. \A x \in leases : \E y \in leases' : y.id = x.id /\ y.driver = x.driver
    BY <1>1
  <1>4. Leased'
    <2>1. \A y \in leases' :
              loans'[y.id].to = y.driver /\ loans'[y.id].at \in {"lent", "returned"}
      BY <1>1 DEF IInv, Leased
    <2>2. \A a, b \in leases' : a.id = b.id => a = b
      BY <1>1 DEF IInv, Leased
    <2> QED BY <2>1, <2>2 DEF Leased
  <1> QED BY <1>1, <1>2, <1>3, <1>4

\* The lease LeaseOf finds is the loan's one lease.
LEMMA LeaseFound ==
    ASSUME IInv, NEW l, Declared(l)
    PROVE  LeaseOf(l) \in leases /\ LeaseOf(l).id = l
  BY DEF Declared, LeaseOf

LEMMA DmaMapInv ==
    ASSUME IInv, NEW i \in Instances, NEW l \in Loans, DmaMap(i, l), IoAssumption
    PROVE  IInv'
  <1> DEFINE t == run[i].task
  <1>1. /\ Running(i) /\ loans[l] = [at |-> "lent", to |-> t]
        /\ UNCHANGED <<requests, run, loans>>
    BY DEF DmaMap
  <1>2. PICK held \in declare_lease(t, l), direction \in Directions, contiguous \in BOOLEAN :
          LET maps == prepare_dma(t, held, direction) /\ contiguous /\ next_dma <= MaxMaps
              new == IF Declared(l) THEN 0 ELSE 1
          IN  /\ leases' = WithLease(IF maps THEN [held EXCEPT !.mappings = @ + 1] ELSE held)
              /\ dma' = IF maps THEN dma \cup {Mapping(t, l, direction, held.pages)} ELSE dma
              /\ next_dma' = IF maps THEN next_dma + 1 ELSE next_dma
              /\ drivers' = [drivers EXCEPT
                   ![t].occupancy.buffer_loans = @ + new,
                   ![t].occupancy.dma_pages = @ + (IF maps /\ held.mappings = 0
                                                   THEN held.pages ELSE 0),
                   ![t].occupancy.dma_mappings = @ + (IF maps THEN 1 ELSE 0)]
    BY DEF DmaMap
  <1> DEFINE maps == prepare_dma(t, held, direction) /\ contiguous /\ next_dma <= MaxMaps
             kept == IF maps THEN [held EXCEPT !.mappings = held.mappings + 1] ELSE held
             m == Mapping(t, l, direction, held.pages)
             a == drivers[t].occupancy["buffer_loans"] + (IF Declared(l) THEN 0 ELSE 1)
             b == drivers[t].occupancy["dma_pages"] + (IF maps /\ held.mappings = 0
                                                       THEN held.pages ELSE 0)
             c == drivers[t].occupancy["dma_mappings"] + (IF maps THEN 1 ELSE 0)
  <1>3. t \in Tasks /\ t \in Nat /\ Holding(t)
    BY <1>1, RunningTask
  <1>4. l \in Nat /\ l # NoLease /\ LoanPages \in Nat
    BY DEF IoAssumption
  <1>5. held \in LeaseRow /\ held.id = l /\ held.driver = t
    <2>1. CASE Declared(l)
      BY <1>2, <2>1 DEF declare_lease, IInv, TypeOK
    <2>2. CASE ~Declared(l)
      <3>1. held = [id |-> l, driver |-> t, pages |-> LoanPages, mappings |-> 0, requests |-> 0]
        BY <1>2, <2>2 DEF declare_lease
      <3> QED BY <1>3, <1>4, <3>1 DEF LeaseRow
    <2> QED BY <2>1, <2>2
  <1>6. held.mappings \in Int /\ held.pages \in Int
    BY <1>5 DEF LeaseRow
  <1>7. kept \in LeaseRow /\ kept.id = l /\ kept.driver = t
    BY <1>5, <1>6 DEF LeaseRow
  <1>8. /\ leases' = WithLease(kept)
        /\ dma' = IF maps THEN dma \cup {m} ELSE dma
        /\ next_dma' = IF maps THEN next_dma + 1 ELSE next_dma
    BY <1>2
  <1>9. drivers' = [drivers EXCEPT ![t].occupancy["buffer_loans"] = a,
                                   ![t].occupancy["dma_pages"] = b,
                                   ![t].occupancy["dma_mappings"] = c]
    BY <1>2
  <1>10. a \in Int /\ b \in Int /\ c \in Int
    <2>1. /\ drivers[t].occupancy["buffer_loans"] \in Int
          /\ drivers[t].occupancy["dma_pages"] \in Int
          /\ drivers[t].occupancy["dma_mappings"] \in Int
      BY <1>3, RowTypes DEF Field
    <2> HIDE DEF maps
    <2> QED BY <1>6, <2>1
  <1>11. m \in MappingRow /\ m.id = next_dma /\ m.lease = l /\ m.driver = t
    BY <1>3, <1>4, <1>6 DEF Mapping, MappingRow, IInv, TypeOK
  <1> HIDE DEF maps, kept, m, a, b, c
  <1>12. Recharged(drivers, drivers')
    <2>1. drivers \in Seq(DriverRow) /\ t \in 1 .. Len(drivers)
      BY <1>3 DEF IInv, TypeOK, Tasks
    <2>2. {"buffer_loans", "dma_pages", "dma_mappings"} \subseteq Field
      BY DEF Field
    <2> HIDE DEF t
    <2>3. Recharged(drivers, [drivers EXCEPT ![t].occupancy["buffer_loans"] = a,
                                             ![t].occupancy["dma_pages"] = b,
                                             ![t].occupancy["dma_mappings"] = c])
      BY <1>10, <2>1, <2>2, ChargedThrice
    <2> QED BY <1>9, <2>3
  <1>13. Incumbent' /\ (\A u : Holding(u)' <=> Holding(u))
    BY <1>1, <1>12, Frame
  <1>14. loans[l].to = t /\ loans[l].at = "lent"
    BY <1>1
  <1>15. \A x \in leases : x.id = l => x.driver = t
    BY <1>14 DEF IInv, Leased
  <1>16. /\ leases' \in SUBSET LeaseRow /\ Leased'
         /\ \A x \in leases : \E y \in leases' : y.id = x.id /\ y.driver = x.driver
         /\ \A y \in leases' : y = kept \/ y \in leases
         /\ kept \in leases'
    BY <1>1, <1>7, <1>8, <1>14, <1>15, LeaseReplaced
  <1>17. next_dma \in Nat
    BY DEF IInv, TypeOK
  <1>18. TypeOK'
    <2>1. dma' \in SUBSET MappingRow
      BY <1>8, <1>11 DEF IInv, TypeOK
    <2>2. next_dma' \in Nat
      BY <1>8, <1>17
    <2> QED BY <1>1, <1>12, <1>16, <2>1, <2>2, TypesKept
  <1>19. Owned'
    BY <1>3, <1>7, <1>8, <1>11, <1>13, <1>16 DEF IInv, Owned
  <1>20. Mapped'
    BY <1>7, <1>8, <1>11, <1>16 DEF IInv, Mapped
  <1>21. Requested'
    <2>1. \A x \in dma : x.id \in Nat /\ x.id < next_dma
      BY DEF IInv, TypeOK, MappingRow, Requested
    <2>2. \A r \in requests : r.mapping \in Nat /\ r.mapping < next_dma
      BY DEF IInv, Requested
    <2>3. \A x \in dma' : x.id < next_dma'
      BY <1>8, <1>11, <1>17, <2>1
    <2>4. \A x, y \in dma' : x.id = y.id => x.lease = y.lease
      BY <1>8, <1>11, <1>17, <2>1 DEF IInv, Requested
    <2>5. \A r \in requests' : r.mapping \in Nat /\ r.mapping < next_dma'
      BY <1>1, <1>8, <1>17, <2>2
    <2>6. \A r \in requests', x \in dma' : x.id = r.mapping => x.lease # NoLease
      BY <1>1, <1>4, <1>8, <1>11 DEF IInv, Requested
    <2> QED BY <2>3, <2>4, <2>5, <2>6 DEF Requested
  <1> QED BY <1>13, <1>16, <1>18, <1>19, <1>20, <1>21 DEF IInv

\* Losing or recounting mappings: each row left stands for one there was.
LEMMA MappingsKept ==
    ASSUME IInv, dma' \in SUBSET MappingRow, UNCHANGED next_dma,
           \A x \in dma' : \E y \in dma : x.id = y.id /\ x.lease = y.lease /\ x.driver = y.driver,
           \A r \in requests' : r \in requests
                             \/ \E y \in dma : r.mapping = y.id /\ y.lease # NoLease
    PROVE  Requested'
  <1>1. \A x \in dma : x.id \in Nat /\ x.id < next_dma
    BY DEF IInv, TypeOK, MappingRow, Requested
  <1>2. \A x \in dma' : x.id < next_dma'
    BY <1>1
  <1>3. \A x, y \in dma' : x.id = y.id => x.lease = y.lease
    BY DEF IInv, Requested
  <1>4. \A r \in requests' : r.mapping \in Nat /\ r.mapping < next_dma'
    BY <1>1 DEF IInv, Requested
  <1>5. \A r \in requests', x \in dma' : x.id = r.mapping => x.lease # NoLease
    BY DEF IInv, Requested
  <1> QED BY <1>2, <1>3, <1>4, <1>5 DEF Requested

LEMMA DmaReleaseInv ==
    ASSUME IInv, NEW i \in Instances, DmaRelease(i), IoAssumption
    PROVE  IInv'
  <1>1. /\ Running(i) /\ UNCHANGED <<requests, next_dma, run, loans>>
    BY DEF DmaRelease
  <1>2. PICK m \in DmaOf(run[i].task) :
            \/ UNCHANGED <<dma, leases, drivers>>
            \/ /\ dma' = dma \ {m}
               /\ leases' = {IF held.id = m.lease THEN [held EXCEPT !.mappings = @ - 1]
                             ELSE held : held \in leases}
               /\ drivers' = [drivers EXCEPT
                    ![m.driver].occupancy.dma_pages =
                        IF ReleasesPages(m) THEN (@ - m.pages) % Word ELSE @,
                    ![m.driver].occupancy.dma_mappings = @ - 1]
    BY DEF DmaRelease
  <1>3. m \in dma /\ m \in MappingRow
    BY <1>2 DEF DmaOf, IInv, TypeOK
  <1>4. CASE UNCHANGED <<dma, leases, drivers>>
    <2>1. Recharged(drivers, drivers')
      BY <1>4, RechargedSelf DEF IInv, TypeOK
    <2> QED BY <1>1, <1>4, <2>1, OnlyCharged
  <1>5. CASE ~UNCHANGED <<dma, leases, drivers>>
    <2> DEFINE t == m.driver
               pages == drivers[t].occupancy["dma_pages"]
               n == IF ReleasesPages(m) THEN (pages - m.pages) % Word ELSE pages
               k == drivers[t].occupancy["dma_mappings"] - 1
               After(held) == IF held.id = m.lease
                              THEN [held EXCEPT !.mappings = held.mappings - 1] ELSE held
    <2>1. /\ dma' = dma \ {m}
          /\ leases' = {After(held) : held \in leases}
          /\ drivers' = [drivers EXCEPT ![t].occupancy["dma_pages"] = n,
                                        ![t].occupancy["dma_mappings"] = k]
      BY <1>2, <1>5
    <2>2. t \in Tasks
      BY <1>3 DEF IInv, Owned, Holding
    <2>3. pages \in Int /\ k \in Int /\ m.pages \in Int
      BY <1>3, <2>2, RowTypes DEF Field, MappingRow
    <2>4. Word \in Nat \ {0}
      <3>1. /\ Word \in Nat /\ LoanPages \in Nat \ {0} /\ QueuePages \in Nat \ {0}
            /\ Quota.dma_pages \in Nat /\ Word > Quota.dma_pages + LoanPages + QueuePages
        BY DEF IoAssumption
      <3> QED BY <3>1
    <2>5. n \in Int
      BY <2>3, <2>4
    <2>6. ASSUME NEW held \in leases
          PROVE  /\ After(held) \in LeaseRow
                 /\ After(held).id = held.id /\ After(held).driver = held.driver
      <3>1. held \in LeaseRow
        BY DEF IInv, TypeOK
      <3>2. [held EXCEPT !.mappings = held.mappings - 1] \in LeaseRow
        BY <3>1 DEF LeaseRow
      <3>3. /\ [held EXCEPT !.mappings = held.mappings - 1].id = held.id
            /\ [held EXCEPT !.mappings = held.mappings - 1].driver = held.driver
        BY <3>1 DEF LeaseRow
      <3> QED BY <3>1, <3>2, <3>3
    <2> HIDE DEF n, k, After
    <2>7. Recharged(drivers, drivers')
      <3>1. drivers \in Seq(DriverRow) /\ t \in 1 .. Len(drivers)
        BY <2>2 DEF IInv, TypeOK, Tasks
      <3>2. {"dma_pages", "dma_mappings"} \subseteq Field
        BY DEF Field
      <3>3. Recharged(drivers, [drivers EXCEPT ![t].occupancy["dma_pages"] = n,
                                               ![t].occupancy["dma_mappings"] = k])
        BY <2>3, <2>5, <3>1, <3>2, ChargedTwice
      <3> QED BY <2>1, <3>3
    <2>8. Incumbent' /\ (\A u : Holding(u)' <=> Holding(u))
      BY <1>1, <2>7, Frame
    <2>9. TypeOK'
      <3>1. leases' \in SUBSET LeaseRow
        BY <2>1, <2>6
      <3>2. dma' \in SUBSET MappingRow /\ next_dma' \in Nat
        BY <1>1, <2>1 DEF IInv, TypeOK
      <3> QED BY <1>1, <2>7, <3>1, <3>2, TypesKept
    <2>10. Owned'
      BY <2>1, <2>6, <2>8 DEF IInv, Owned
    <2>11. Leased'
      <3>1. \A y \in leases' :
                loans'[y.id].to = y.driver /\ loans'[y.id].at \in {"lent", "returned"}
        BY <1>1, <2>1, <2>6 DEF IInv, Leased
      <3>2. \A a, b \in leases' : a.id = b.id => a = b
        BY <2>1, <2>6 DEF IInv, Leased
      <3> QED BY <3>1, <3>2 DEF Leased
    <2>12. Mapped'
      BY <2>1, <2>6 DEF IInv, Mapped
    <2>13. Requested'
      BY <1>1, <2>1, <2>9, MappingsKept DEF TypeOK
    <2> QED BY <2>8, <2>9, <2>10, <2>11, <2>12, <2>13 DEF IInv
  <1> QED BY <1>4, <1>5

\* Counting a request up or down on its mapping, its lease and its driver.
LEMMA CountedInv ==
    ASSUME IInv, NEW m \in dma, m.lease # NoLease, NEW n \in Int, Counted(m, n),
           UNCHANGED <<run, loans, next_dma>>,
           \A r \in requests' : r \in requests \/ r.mapping = m.id
    PROVE  IInv'
  <1> DEFINE held == LeaseOf(m.lease)
             more == [m EXCEPT !.requests = m.requests + n]
             kept == [held EXCEPT !.requests = held.requests + n]
             t == m.driver
             k == drivers[t].occupancy["outstanding_requests"] + n
  <1>1. /\ dma' = (dma \ {m}) \cup {more}
        /\ leases' = WithLease(kept)
        /\ drivers' = [drivers EXCEPT ![t].occupancy["outstanding_requests"] = k]
    BY DEF Counted
  <1>2. PICK lease \in leases : lease.id = m.lease /\ lease.driver = m.driver
    BY DEF IInv, Mapped
  <1>3. held \in leases /\ held.id = m.lease
    BY <1>2, LeaseFound DEF Declared
  <1>4. held = lease
    BY <1>2, <1>3 DEF IInv, Leased
  <1>5. m \in MappingRow /\ held \in LeaseRow /\ t \in Tasks
    BY <1>3 DEF IInv, TypeOK, Owned, Holding
  <1>6. /\ more \in MappingRow /\ more.id = m.id /\ more.lease = m.lease /\ more.driver = t
    BY <1>5 DEF MappingRow
  <1>7. kept \in LeaseRow /\ kept.id = m.lease /\ kept.driver = t
    <2> HIDE DEF held
    <2>1. held.requests \in Int /\ held.id = m.lease /\ held.driver = t
      BY <1>2, <1>3, <1>4, <1>5 DEF LeaseRow
    <2> QED BY <1>5, <2>1 DEF LeaseRow
  <1>8. k \in Int
    BY <1>5, RowTypes DEF Field
  <1> HIDE DEF held, more, kept, k
  <1>9. Recharged(drivers, drivers')
    BY <1>1, <1>5, <1>8, Charged DEF IInv, TypeOK, Tasks, Field
  <1>10. Incumbent' /\ (\A u : Holding(u)' <=> Holding(u))
    BY <1>9, Frame
  <1>11. /\ loans[kept.id].to = kept.driver /\ loans[kept.id].at \in {"lent", "returned"}
         /\ \A x \in leases : x.id = kept.id => x.driver = kept.driver
    BY <1>2, <1>7 DEF IInv, Leased
  <1>12. /\ leases' \in SUBSET LeaseRow /\ Leased'
         /\ \A x \in leases : \E y \in leases' : y.id = x.id /\ y.driver = x.driver
         /\ \A y \in leases' : y = kept \/ y \in leases
    BY <1>1, <1>7, <1>11, LeaseReplaced
  <1>13. TypeOK'
    BY <1>1, <1>6, <1>9, <1>12 DEF IInv, TypeOK, Recharged
  <1>14. \A x \in dma' : \E y \in dma : x.id = y.id /\ x.lease = y.lease /\ x.driver = y.driver
    BY <1>1, <1>6
  <1>15. Owned'
    BY <1>7, <1>10, <1>12, <1>14 DEF IInv, Owned
  <1>16. Mapped'
    BY <1>12, <1>14 DEF IInv, Mapped
  <1>17. Requested'
    BY <1>13, <1>14, MappingsKept DEF TypeOK
  <1> QED BY <1>10, <1>12, <1>13, <1>15, <1>16, <1>17 DEF IInv

LEMMA BeginRequestInv ==
    ASSUME IInv, NEW i \in Instances, begin_request(i)
    PROVE  IInv'
  <1>1. PICK m \in dma, id \in 1 .. Quota.outstanding_requests :
            /\ m.lease # NoLease
            /\ requests' = requests \cup {[driver |-> run[i].task, id |-> id, mapping |-> m.id]}
            /\ Counted(m, 1)
    BY DEF begin_request, DmaOf
  <1>2. UNCHANGED <<run, loans, next_dma>>
    BY DEF begin_request
  <1> QED BY <1>1, <1>2, CountedInv

LEMMA SettleRequestInv ==
    ASSUME IInv, NEW i \in Instances, settle_request(i)
    PROVE  IInv'
  <1>1. PICK r \in requests, m \in dma :
            m.id = r.mapping /\ requests' = requests \ {r} /\ Counted(m, -1)
    BY DEF settle_request
  <1>2. UNCHANGED <<run, loans, next_dma>>
    BY DEF settle_request
  <1>3. m.lease # NoLease
    BY <1>1 DEF IInv, Requested
  <1>4. -1 \in Int
    OBVIOUS
  <1> QED BY <1>1, <1>2, <1>3, <1>4, CountedInv

-----------------------------------------------------------------------------
(* The loans. *)

\* A step of the buffer plane that keeps the loans the leases are over.
LEMMA LoansOnly ==
    ASSUME IInv, UNCHANGED <<drivers, run, dma, leases, requests, next_dma>>,
           loans' \in [Loans -> [at : {"none", "lent", "returned", "revoked", "ended"}, to : Nat]],
           \A held \in leases : /\ loans'[held.id].to = loans[held.id].to
                                /\ loans'[held.id].at \in {"lent", "returned"}
    PROVE  IInv'
  <1>1. Recharged(drivers, drivers')
    BY RechargedSelf DEF IInv, TypeOK
  <1>2. Incumbent' /\ (\A u : Holding(u)' <=> Holding(u))
    BY <1>1, Frame
  <1>3. TypeOK'
    BY DEF IInv, TypeOK
  <1>4. Owned'
    BY <1>2 DEF IInv, Owned
  <1>5. Leased'
    BY DEF IInv, Leased
  <1>6. Mapped' /\ Requested'
    BY DEF IInv, Mapped, Requested
  <1> QED BY <1>2, <1>3, <1>4, <1>5, <1>6 DEF IInv

\* A lease is over a loan of the table.
LEMMA LeaseLoan ==
    ASSUME IInv, NEW held \in leases
    PROVE  /\ held.id \in Loans /\ loans[held.id].to = held.driver
           /\ loans[held.id].at \in {"lent", "returned"}
  BY DEF IInv, TypeOK, LeaseRow, Leased

LEMMA LendInv ==
    ASSUME IInv, NEW i \in Instances, NEW l \in Loans, Lend(l, i)
    PROVE  IInv'
  <1>1. /\ Running(i) /\ loans[l].at = "none"
        /\ loans' = [loans EXCEPT ![l] = [at |-> "lent", to |-> run[i].task]]
        /\ UNCHANGED <<drivers, run, dma, leases, requests, next_dma>>
    BY DEF Lend, table
  <1>2. run[i].task \in Nat
    BY <1>1, RunningTask
  <1>3. loans' \in [Loans -> [at : {"none", "lent", "returned", "revoked", "ended"}, to : Nat]]
    BY <1>1, <1>2 DEF IInv, TypeOK
  <1>4. \A held \in leases : held.id # l
    BY <1>1, LeaseLoan
  <1>5. \A held \in leases : loans'[held.id] = loans[held.id]
    BY <1>1, <1>4, LeaseLoan DEF IInv, TypeOK
  <1> QED BY <1>1, <1>3, <1>5, LeaseLoan, LoansOnly

LEMMA ReturnInv ==
    ASSUME IInv, NEW i \in Instances, NEW l \in Loans, Return(i, l)
    PROVE  IInv'
  <1>1. /\ loans' = [loans EXCEPT ![l].at = "returned"]
        /\ UNCHANGED <<drivers, run, dma, leases, requests, next_dma>>
    BY DEF Return, table
  <1>2. loans[l] \in [at : {"none", "lent", "returned", "revoked", "ended"}, to : Nat]
    BY DEF IInv, TypeOK
  <1>3. loans' \in [Loans -> [at : {"none", "lent", "returned", "revoked", "ended"}, to : Nat]]
    BY <1>1, <1>2 DEF IInv, TypeOK
  <1>4. \A k \in Loans : /\ loans'[k].to = loans[k].to
                         /\ loans'[k].at = IF k = l THEN "returned" ELSE loans[k].at
    BY <1>1, <1>2 DEF IInv, TypeOK
  <1> QED BY <1>1, <1>3, <1>4, LeaseLoan, LoansOnly

\* Of a loan the lender revoked, or tried to, no lease and no mapping is left.
LEMMA Unleased ==
    ASSUME IInv, NEW l \in Loans, Revoke(l), IoAssumption
    PROVE  /\ Recharged(drivers, drivers')
           /\ leases' \subseteq leases /\ dma' \subseteq dma /\ requests' \subseteq requests
           /\ \A held \in leases : held \in leases' <=> held.id # l
           /\ \A m \in dma' : m.lease # l
  <1>1. CASE ~Declared(l)
    <2>1. UNCHANGED <<drivers, dma, leases, requests>>
      BY <1>1 DEF Revoke
    <2>2. Recharged(drivers, drivers')
      BY <2>1, RechargedSelf DEF IInv, TypeOK
    <2>3. l # NoLease
      BY DEF IoAssumption
    <2>4. \A m \in dma : m.lease # l
      BY <1>1, <2>3 DEF IInv, Mapped, Declared
    <2> QED BY <1>1, <2>1, <2>2, <2>4 DEF Declared
  <1>2. CASE Declared(l)
    <2> DEFINE held == LeaseOf(l)
               t == held.driver
               a == (drivers[t].occupancy["dma_pages"] - held.pages) % Word
               b == drivers[t].occupancy["dma_mappings"] - held.mappings
               c == drivers[t].occupancy["outstanding_requests"] - held.requests
               d == drivers[t].occupancy["buffer_loans"] - 1
    <2>1. revoke_lease(l)
      BY <1>2 DEF Revoke
    <2>2. held \in leases /\ held.id = l
      BY <1>2, LeaseFound
    <2>3. /\ dma' = dma \ Revoked(l) /\ leases' = leases \ {held}
          /\ requests' = {r \in requests : \A m \in Revoked(l) : r.mapping # m.id}
      BY <2>1 DEF revoke_lease
    <2>4. drivers' = [drivers EXCEPT ![t].occupancy["dma_pages"] = a,
                                     ![t].occupancy["dma_mappings"] = b,
                                     ![t].occupancy["outstanding_requests"] = c,
                                     ![t].occupancy["buffer_loans"] = d]
      BY <2>1 DEF revoke_lease
    <2>5. held \in LeaseRow /\ t \in Tasks
      BY <2>2 DEF IInv, TypeOK, Owned, Holding
    <2>6. held.pages \in Int /\ held.mappings \in Int /\ held.requests \in Int
      BY <2>5 DEF LeaseRow
    <2>7. Word \in Nat \ {0}
      <3>1. /\ Word \in Nat /\ LoanPages \in Nat \ {0} /\ QueuePages \in Nat \ {0}
            /\ Quota.dma_pages \in Nat /\ Word > Quota.dma_pages + LoanPages + QueuePages
        BY DEF IoAssumption
      <3> QED BY <3>1
    <2>8. /\ drivers[t].occupancy["dma_pages"] \in Int
          /\ drivers[t].occupancy["dma_mappings"] \in Int
          /\ drivers[t].occupancy["outstanding_requests"] \in Int
          /\ drivers[t].occupancy["buffer_loans"] \in Int
      BY <2>5, RowTypes DEF Field
    <2>9. a \in Int /\ b \in Int /\ c \in Int /\ d \in Int
      <3>1. a \in Int
        BY <2>6, <2>7, <2>8
      <3>2. b \in Int /\ c \in Int /\ d \in Int
        BY <2>6, <2>8
      <3> QED BY <3>1, <3>2
    <2>10. \A x \in leases : x \in leases' <=> x.id # l
      BY <2>2, <2>3 DEF IInv, Leased
    <2>11. \A m \in dma' : m.lease # l
      BY <2>3 DEF Revoked
    <2> HIDE DEF held, a, b, c, d
    <2>12. Recharged(drivers, drivers')
      <3> DEFINE e == [drivers EXCEPT ![t].occupancy["dma_pages"] = a,
                                      ![t].occupancy["dma_mappings"] = b,
                                      ![t].occupancy["outstanding_requests"] = c]
      <3>1. drivers \in Seq(DriverRow) /\ t \in 1 .. Len(drivers)
        BY <2>5 DEF IInv, TypeOK, Tasks
      <3>2. {"dma_pages", "dma_mappings", "outstanding_requests", "buffer_loans"} \subseteq Field
        BY DEF Field
      <3> HIDE DEF t
      <3>3. Recharged(drivers, e)
        BY <2>9, <3>1, <3>2, ChargedThrice
      <3>4. drivers' = [e EXCEPT ![t].occupancy["buffer_loans"] = d]
        BY <2>4
      <3> HIDE DEF e
      <3>5. e \in Seq(DriverRow) /\ t \in 1 .. Len(e)
        BY <3>1, <3>3 DEF Recharged
      <3>6. Recharged(e, drivers')
        BY <2>9, <3>2, <3>4, <3>5, Charged
      <3> QED BY <3>3, <3>6, RechargedTransitive
    <2> QED BY <2>3, <2>10, <2>11, <2>12
  <1> QED BY <1>1, <1>2

LEMMA RevokeInv ==
    ASSUME IInv, NEW l \in Loans, Revoke(l), IoAssumption
    PROVE  IInv'
  <1>1. UNCHANGED <<next_dma, run>>
    BY DEF Revoke
  <1>2. loans' = loans \/ loans' = [loans EXCEPT ![l].at = "revoked"]
    BY DEF Revoke
  <1>3. /\ Recharged(drivers, drivers')
        /\ leases' \subseteq leases /\ dma' \subseteq dma /\ requests' \subseteq requests
        /\ \A held \in leases : held \in leases' <=> held.id # l
        /\ \A m \in dma' : m.lease # l
    BY Unleased
  <1>4. Incumbent' /\ (\A u : Holding(u)' <=> Holding(u))
    BY <1>1, <1>3, Frame
  <1>5. loans[l] \in [at : {"none", "lent", "returned", "revoked", "ended"}, to : Nat]
    BY DEF IInv, TypeOK
  <1>6. /\ loans' \in [Loans -> [at : {"none", "lent", "returned", "revoked", "ended"}, to : Nat]]
        /\ \A k \in Loans : k # l => loans'[k] = loans[k]
    <2>1. loans \in [Loans -> [at : {"none", "lent", "returned", "revoked", "ended"}, to : Nat]]
      BY DEF IInv, TypeOK
    <2>2. CASE loans' = loans
      BY <2>1, <2>2
    <2>3. CASE loans' = [loans EXCEPT ![l].at = "revoked"]
      BY <1>5, <2>1, <2>3
    <2> QED BY <1>2, <2>2, <2>3
  <1>7. TypeOK'
    BY <1>1, <1>3, <1>6 DEF IInv, TypeOK, Recharged
  <1>8. Owned'
    BY <1>3, <1>4 DEF IInv, Owned
  <1>9. Leased'
    <2>1. \A held \in leases' :
              loans'[held.id].to = held.driver /\ loans'[held.id].at \in {"lent", "returned"}
      BY <1>3, <1>6, LeaseLoan
    <2>2. \A a, b \in leases' : a.id = b.id => a = b
      BY <1>3 DEF IInv, Leased
    <2> QED BY <2>1, <2>2 DEF Leased
  <1>10. Mapped'
    BY <1>3 DEF IInv, Mapped
  <1>11. Requested'
    BY <1>1, <1>3, <1>7, MappingsKept DEF TypeOK
  <1> QED BY <1>4, <1>7, <1>8, <1>9, <1>10, <1>11 DEF IInv

-----------------------------------------------------------------------------
(* A driver's life. *)

LEMMA LaunchInv ==
    ASSUME IInv, NEW i \in Instances, Launch(i)
    PROVE  IInv'
  <1> DEFINE t == Len(drivers) + 1
             row == [instance |-> i, occupancy |-> EMPTY]
  <1>1. /\ run[i].at = "gone"
        /\ drivers' = Append(drivers, row)
        /\ run' = [run EXCEPT ![i] = [task |-> t, at |-> "running"]]
        /\ UNCHANGED <<dma, leases, requests, next_dma, loans>>
    BY DEF Launch
  <1>2. row \in DriverRow /\ row.instance = i
    BY DEF DriverRow, EMPTY, Field
  <1> HIDE DEF row
  <1>3. /\ drivers \in Seq(DriverRow) /\ Len(drivers) \in Nat
        /\ run \in [Instances -> [task : Nat, at : Phase]]
    BY DEF IInv, TypeOK
  <1>4. /\ drivers' \in Seq(DriverRow) /\ Len(drivers') = t
        /\ \A u \in Tasks : drivers'[u] = drivers[u]
        /\ drivers'[t] = row
    BY <1>1, <1>2, <1>3 DEF Tasks
  <1>5. Tasks \subseteq Tasks' /\ t \in Tasks'
    BY <1>3, <1>4 DEF Tasks
  <1>6. /\ run' \in [Instances -> [task : Nat, at : Phase]]
        /\ \A j \in Instances : j # i => run'[j] = run[j]
        /\ run'[i].task = t
    BY <1>1, <1>3 DEF Phase
  <1>7. \A u \in Tasks : drivers[u].instance \in Instances
    <2>1. \A u \in 1 .. Len(drivers) : drivers[u] \in DriverRow
      BY <1>3
    <2> QED BY <2>1 DEF Tasks, DriverRow
  <1>8. ASSUME NEW u, Holding(u)
        PROVE  Holding(u)'
    <2>1. u \in Tasks /\ Device(u) \in Instances /\ Device(u) # i
      BY <1>1, <1>7, <1>8 DEF Holding, Device
    <2>2. u \in Tasks' /\ Device(u)' = Device(u) /\ run'[Device(u)] = run[Device(u)]
      BY <1>4, <1>5, <1>6, <2>1 DEF Device
    <2> QED BY <1>8, <2>2 DEF Holding
  <1>9. Incumbent'
    <2>1. ASSUME NEW j \in Instances, run'[j].at # "gone", j # i
          PROVE  run'[j].task \in Tasks' /\ drivers'[run'[j].task].instance = j
      BY <1>4, <1>5, <1>6, <2>1 DEF IInv, Incumbent, Device
    <2>2. run'[i].task \in Tasks' /\ drivers'[run'[i].task].instance = i
      BY <1>2, <1>4, <1>5, <1>6
    <2> QED BY <2>1, <2>2 DEF Incumbent, Device
  <1>10. TypeOK'
    BY <1>1, <1>4, <1>6 DEF IInv, TypeOK
  <1>11. Owned'
    BY <1>1, <1>8 DEF IInv, Owned
  <1>12. Leased' /\ Mapped' /\ Requested'
    BY <1>1 DEF IInv, Leased, Mapped, Requested
  <1> QED BY <1>9, <1>10, <1>11, <1>12 DEF IInv

\* An instance moves to a later phase: the tasks of the others hold as before,
\* and its own while the phase is Io.
LEMMA PhaseMoved ==
    ASSUME IInv, NEW i \in Instances, run[i].at # "gone", NEW at \in Phase \ {"running"},
           run' = [run EXCEPT ![i].at = at], Recharged(drivers, drivers')
    PROVE  /\ run' \in [Instances -> [task : Nat, at : Phase]]
           /\ Incumbent'
           /\ \A u : Holding(u) /\ (u = run[i].task => at = "Io") => Holding(u)'
  <1>1. run \in [Instances -> [task : Nat, at : Phase]]
    BY DEF IInv, TypeOK
  <1>2. run[i] \in [task : Nat, at : Phase]
    BY <1>1
  <1>3. /\ run' \in [Instances -> [task : Nat, at : Phase]]
        /\ \A j \in Instances : /\ run'[j].task = run[j].task
                                /\ run'[j].at = IF j = i THEN at ELSE run[j].at
    BY <1>1, <1>2
  <1>4. Tasks' = Tasks /\ \A u \in Tasks : Device(u)' = Device(u)
    BY DEF Recharged, Tasks, Device
  <1>5. \A u \in Tasks : Device(u) \in Instances
    <2>1. \A u \in 1 .. Len(drivers) : drivers[u] \in DriverRow
      BY DEF IInv, TypeOK
    <2> QED BY <2>1 DEF Tasks, Device, DriverRow
  <1>6. Incumbent'
    <2>1. ASSUME NEW j \in Instances, run'[j].at # "gone"
          PROVE  run[j].task \in Tasks /\ Device(run[j].task) = j
      BY <1>3, <2>1 DEF IInv, Incumbent
    <2>2. ASSUME NEW j \in Instances, run'[j].at # "gone"
          PROVE  run'[j].task \in Tasks' /\ drivers'[run'[j].task].instance = j
      BY <1>3, <1>4, <2>1, <2>2 DEF Device
    <2> QED BY <2>2 DEF Incumbent, Device
  <1>7. ASSUME NEW u, Holding(u), u = run[i].task => at = "Io"
        PROVE  Holding(u)'
    <2>1. u \in Tasks /\ Device(u) \in Instances /\ run[Device(u)].task = u
      BY <1>5, <1>7 DEF Holding
    <2>2. run'[Device(u)].task = u /\ run'[Device(u)].at \in {"running", "Io"}
      BY <1>3, <1>7, <2>1 DEF Holding
    <2> QED BY <1>4, <2>1, <2>2 DEF Holding
  <1> QED BY <1>3, <1>6, <1>7

LEMMA DieInv ==
    ASSUME IInv, NEW i \in Instances, Die(i)
    PROVE  IInv'
  <1>1. /\ run[i].at # "gone" /\ run' = [run EXCEPT ![i].at = "Io"]
        /\ UNCHANGED <<drivers, dma, leases, requests, next_dma, loans>>
    BY DEF Die, Running, table
  <1>2. Recharged(drivers, drivers')
    BY <1>1, RechargedSelf DEF IInv, TypeOK
  <1>3. /\ run' \in [Instances -> [task : Nat, at : Phase]]
        /\ Incumbent'
        /\ \A u : Holding(u) => Holding(u)'
    BY <1>1, <1>2, PhaseMoved DEF Phase
  <1>4. TypeOK'
    BY <1>1, <1>3 DEF IInv, TypeOK
  <1>5. Owned'
    BY <1>1, <1>3 DEF IInv, Owned
  <1>6. Leased' /\ Mapped' /\ Requested'
    BY <1>1 DEF IInv, Leased, Mapped, Requested
  <1> QED BY <1>3, <1>4, <1>5, <1>6 DEF IInv

\* Emptying a row leaves it the row of its instance.
LEMMA RowCleared ==
    ASSUME NEW r \in DriverRow, NEW o \in [Field -> Int]
    PROVE  [r EXCEPT !.occupancy = o] \in DriverRow /\ [r EXCEPT !.occupancy = o].instance = r.instance
  BY DEF DriverRow

LEMMA RetireIoInv ==
    ASSUME IInv, NEW i \in Instances, RetireIo(i)
    PROVE  IInv'
  <1> DEFINE t == run[i].task
  <1>1. /\ run[i].at = "Io" /\ loans' = loans
        /\ \/ reclaim_driver(t) /\ run' = [run EXCEPT ![i].at = "Buffers"]
           \/ UNCHANGED <<table, run>>
    BY DEF RetireIo
  <1>2. CASE UNCHANGED <<table, run>>
    <2>1. UNCHANGED <<drivers, run, loans, dma, leases, requests, next_dma>>
      BY <1>1, <1>2 DEF table
    <2>2. Recharged(drivers, drivers')
      BY <2>1, RechargedSelf DEF IInv, TypeOK
    <2> QED BY <2>1, <2>2, OnlyCharged
  <1>3. CASE reclaim_driver(t) /\ run' = [run EXCEPT ![i].at = "Buffers"]
    <2> DEFINE row == [drivers[t] EXCEPT !.occupancy = EMPTY]
    <2>1. /\ drivers' = [drivers EXCEPT ![t] = row]
          /\ dma' = dma \ DmaOf(t) /\ leases' = {held \in leases : held.driver # t}
          /\ requests' = {r \in requests : r.driver # t} /\ next_dma' = next_dma
      BY <1>3 DEF reclaim_driver
    <2>2. t \in Tasks
      BY <1>1 DEF IInv, Incumbent
    <2>3. drivers \in Seq(DriverRow) /\ t \in 1 .. Len(drivers) /\ drivers[t] \in DriverRow
      BY <2>2 DEF IInv, TypeOK, Tasks
    <2>4. EMPTY \in [Field -> Int]
      BY DEF EMPTY, Field
    <2>5. row \in DriverRow /\ row.instance = drivers[t].instance
      BY <2>3, <2>4, RowCleared
    <2> HIDE DEF row
    <2>6. Recharged(drivers, drivers')
      BY <2>1, <2>3, <2>5, RowReplaced
    <2>7. /\ run' \in [Instances -> [task : Nat, at : Phase]]
          /\ Incumbent'
          /\ \A u : Holding(u) /\ u # t => Holding(u)'
      BY <1>1, <1>3, <2>6, PhaseMoved DEF Phase
    <2>8. TypeOK'
      BY <1>1, <2>1, <2>6, <2>7 DEF IInv, TypeOK, Recharged
    <2>9. Owned'
      BY <2>1, <2>7 DEF IInv, Owned, DmaOf
    <2>10. Leased'
      BY <1>1, <2>1 DEF IInv, Leased
    <2>11. Mapped'
      BY <2>1 DEF IInv, Mapped, DmaOf
    <2>12. Requested'
      BY <2>1, <2>8, MappingsKept DEF TypeOK
    <2> QED BY <2>7, <2>8, <2>9, <2>10, <2>11, <2>12 DEF IInv
  <1> QED BY <1>1, <1>2, <1>3

LEMMA RetireBuffersInv ==
    ASSUME IInv, NEW i \in Instances, RetireBuffers(i)
    PROVE  IInv'
  <1> DEFINE t == run[i].task
  <1>1. PICK at \in {"Buffers", "Arena"}, settled \in BOOLEAN :
        /\ run[i].at = "Buffers" /\ run' = [run EXCEPT ![i].at = at]
        /\ loans' = [l \in Loans |-> IF settled /\ loans[l] = [at |-> "lent", to |-> t]
                                     THEN [loans[l] EXCEPT !.at = "ended"] ELSE loans[l]]
        /\ UNCHANGED <<drivers, dma, leases, requests, next_dma>>
    BY DEF RetireBuffers, table
  <1>2. Recharged(drivers, drivers')
    BY <1>1, RechargedSelf DEF IInv, TypeOK
  <1>3. /\ run' \in [Instances -> [task : Nat, at : Phase]]
        /\ Incumbent'
        /\ \A u : Holding(u) /\ u # t => Holding(u)'
    BY <1>1, <1>2, PhaseMoved DEF Phase
  <1>4. ~Holding(t)
    BY <1>1 DEF Holding, IInv, Incumbent
  <1>5. loans' \in [Loans -> [at : {"none", "lent", "returned", "revoked", "ended"}, to : Nat]]
    <2>1. ASSUME NEW l \in Loans
          PROVE  [loans[l] EXCEPT !.at = "ended"]
                   \in [at : {"none", "lent", "returned", "revoked", "ended"}, to : Nat]
      BY DEF IInv, TypeOK
    <2> QED BY <1>1, <2>1 DEF IInv, TypeOK
  <1>6. TypeOK'
    BY <1>1, <1>3, <1>5 DEF IInv, TypeOK
  <1>7. Owned'
    BY <1>1, <1>3, <1>4 DEF IInv, Owned
  <1>8. Leased'
    <2>1. ASSUME NEW held \in leases
          PROVE  loans'[held.id] = loans[held.id]
      <3>1. held.driver # t
        BY <1>4 DEF IInv, Owned
      <3>2. held.id \in Loans /\ loans[held.id].to = held.driver
        BY LeaseLoan
      <3>3. loans[held.id] # [at |-> "lent", to |-> t]
        BY <3>1, <3>2
      <3> QED BY <1>1, <3>2, <3>3
    <2> QED BY <1>1, <2>1 DEF IInv, Leased
  <1>9. Mapped' /\ Requested'
    BY <1>1 DEF IInv, Mapped, Requested
  <1> QED BY <1>3, <1>6, <1>7, <1>8, <1>9 DEF IInv

LEMMA RetireArenaInv ==
    ASSUME IInv, NEW i \in Instances, RetireArena(i)
    PROVE  IInv'
  <1>1. PICK at \in {"Arena", "gone"} :
        /\ run[i].at = "Arena" /\ run' = [run EXCEPT ![i].at = at]
        /\ UNCHANGED <<drivers, dma, leases, requests, next_dma, loans>>
    BY DEF RetireArena, table
  <1>2. Recharged(drivers, drivers')
    BY <1>1, RechargedSelf DEF IInv, TypeOK
  <1>3. /\ run' \in [Instances -> [task : Nat, at : Phase]]
        /\ Incumbent'
        /\ \A u : Holding(u) /\ u # run[i].task => Holding(u)'
    BY <1>1, <1>2, PhaseMoved DEF Phase
  <1>4. ~Holding(run[i].task)
    BY <1>1 DEF Holding, IInv, Incumbent
  <1>5. TypeOK'
    BY <1>1, <1>3 DEF IInv, TypeOK
  <1>6. Owned'
    BY <1>1, <1>3, <1>4 DEF IInv, Owned
  <1>7. Leased' /\ Mapped' /\ Requested'
    BY <1>1 DEF IInv, Leased, Mapped, Requested
  <1> QED BY <1>3, <1>5, <1>6, <1>7 DEF IInv

-----------------------------------------------------------------------------
(* The theorem. *)

LEMMA InitInv ==
    ASSUME Init
    PROVE  IInv
  <1>1. TypeOK
    BY DEF Init, TypeOK, Phase
  <1> QED BY <1>1 DEF Init, IInv, Incumbent, Owned, Leased, Mapped, Requested

LEMMA StutterInv ==
    ASSUME IInv, UNCHANGED vars
    PROVE  IInv'
  <1>1. UNCHANGED <<drivers, run, loans, dma, leases, requests, next_dma>>
    BY DEF vars, table
  <1>2. Recharged(drivers, drivers')
    BY <1>1, RechargedSelf DEF IInv, TypeOK
  <1> QED BY <1>1, <1>2, OnlyCharged

\* The invariant holds in every reachable state.
LEMMA Invariance == ASSUME IoAssumption PROVE Spec => []IInv
  <1>1. Init => IInv
    BY InitInv
  <1>2. IInv /\ [Next]_vars => IInv'
    <2> SUFFICES ASSUME IInv, [Next]_vars PROVE IInv'
      OBVIOUS
    <2>1. CASE UNCHANGED vars
      BY <2>1, StutterInv
    <2>2. CASE \E l \in Loans : Revoke(l)
      BY <2>2, RevokeInv
    <2>3. ASSUME NEW i \in Instances, Launch(i) \/ Die(i) \/ RetireIo(i) \/ RetireBuffers(i)
                                         \/ RetireArena(i)
          PROVE  IInv'
      BY <2>3, LaunchInv, DieInv, RetireIoInv, RetireBuffersInv, RetireArenaInv
    <2>4. ASSUME NEW i \in Instances, (\E base \in Bases : MapMmio(i, base)) \/ BindIrq(i) \/ QueueMap(i) \/ DmaRelease(i)
          PROVE  IInv'
      BY <2>4, MapMmioInv, BindIrqInv, QueueMapInv, DmaReleaseInv
    <2>5. ASSUME NEW i \in Instances, begin_request(i) \/ settle_request(i)
          PROVE  IInv'
      BY <2>5, BeginRequestInv, SettleRequestInv
    <2>6. ASSUME NEW i \in Instances, NEW l \in Loans, Lend(l, i) \/ DmaMap(i, l) \/ Return(i, l)
          PROVE  IInv'
      BY <2>6, LendInv, DmaMapInv, ReturnInv
    <2> QED BY <2>1, <2>2, <2>3, <2>4, <2>5, <2>6 DEF Next
  <1> QED BY <1>1, <1>2, PTL DEF Spec

\* A device never has a mapping over memory whose loan was revoked or ended:
\* revocation settles the lease before the loan, and a dead driver's Io phase
\* comes before the phase that ends its loans, whatever the kernel refuses.
THEOREM MappingsWithinLoans == ASSUME IoAssumption PROVE Spec => []DmaOnlyOverLoan
  <1>1. IInv => DmaOnlyOverLoan
    <2> SUFFICES ASSUME IInv, NEW m \in dma, m.lease # NoLease
                 PROVE  loans[m.lease].to = m.driver /\ loans[m.lease].at \in {"lent", "returned"}
      BY DEF DmaOnlyOverLoan
    <2>1. PICK held \in leases : held.id = m.lease /\ held.driver = m.driver
      BY DEF IInv, Mapped
    <2> QED BY <2>1, LeaseLoan
  <1> QED BY <1>1, Invariance, PTL
=============================================================================

------------------------- MODULE FundsAuthorityProofs -------------------------
(***************************************************************************)
(* The properties of FundsAuthority, for any number of processes.            *)
(***************************************************************************)
EXTENDS FundsAuthority, TLAPS

\* A process whose next step on the lock file removes it or leaves it for good.
InLock(p) == proc[p].place \in {"locked", "withdrawing", "releasing"} \/ Lease(p) # 0

\* The lease: the row of a holder is its own, epochs are not reused, and a lease
\* belongs to one process.
LeaseInv ==
    /\ \A p \in Processes :
        /\ Holder(p) => row = Lease(p)
        /\ Lease(p) <= epochs
        /\ proc[p].place \in {"closed", "locked", "withdrawing"} => Lease(p) = 0
        /\ At(p, "releasing") => Lease(p) # 0 /\ row # Lease(p)
        /\ \A q \in Processes : Lease(p) # 0 /\ Lease(p) = Lease(q) => p = q
    /\ row <= epochs \/ row = Unowned

\* The lock file has one owner until it is lost.
LockInv ==
    "lock lost" \notin faults =>
        \A p \in Processes : InLock(p) => lock /\ \A q \in Processes : InLock(q) => q = p

\* What a process that died under its lease leaves behind.
DiedInv ==
    history.died =>
        /\ "lock lost" \notin faults => lock /\ \A p \in Processes : ~InLock(p)
        /\ "backup restored" \notin faults => row # 0 /\ \A p \in Processes : Lease(p) # row

\* A hold on its way: what already stands at each of its steps.
StepInv ==
    \A p \in Processes :
        /\ At(p, "closed") => proc[p] = Closed
        /\ proc[p].place \in {"unwitness", "sentinel", "last resort"} => proc[p].retained
        /\ At(p, "sentinel") => ~witness
        /\ At(p, "last resort") => "witness kept" \in faults
        /\ At(p, "recording") => marker
        /\ proc[p].warned => history.reported

\* A reported hold that only the row keeps.
RowKeeps == row # 0 /\ \A p \in Processes : Lease(p) = row => proc[p].retained

\* A reported hold stands in the files, or in the row when the witness could not
\* be removed.
HoldInv ==
    history.reported /\ SingleFault /\ ~history.shadowed =>
        \/ ~established \/ marker \/ ~witness
        \/ RowKeeps /\ "witness kept" \in faults

\* What a process has read is still so.
ViewInv ==
    \A p \in Processes :
        /\ At(p, "reading") => (proc[p].view.incident => incident)
        /\ proc[p].place \in {"checking", "cleared"} =>
              proc[p].view = View /\ \A q \in Processes : proc[q].place \in {"checking", "cleared"} => q = p
        /\ At(p, "cleared") =>
              /\ Lease(p) # 0 /\ ~incident
              /\ ~(proc[p].warned /\ SingleFault /\ ~history.shadowed)

\* The inductive invariant.
FundsInv ==
    /\ FundsTypeOK
    /\ LeaseInv /\ LockInv /\ DiedInv
    /\ StepInv /\ HoldInv /\ ViewInv
-----------------------------------------------------------------------------
(* What a step makes of the process that takes it. *)

\* A step replaces one process.
LEMMA Stepping ==
    ASSUME FundsTypeOK, NEW p \in Processes, NEW rec \in States, Become(p, rec)
    PROVE  /\ proc' \in [Processes -> States]
           /\ proc'[p] = rec
           /\ \A q \in Processes \ {p} : proc'[q] = proc[q]
BY DEF FundsTypeOK, Become

\* A closed process.
LEMMA ClosedState == Closed \in States
BY FundsAssumption DEF States, Places, Closed, Jobs, NoView, Unowned

\* A process that opened the database.
LEMMA OpenedState ==
    /\ [Closed EXCEPT !.place = "open"] \in States
    /\ [Closed EXCEPT !.place = "marking", !.job = "open"] \in States
BY ClosedState DEF States, Places, Jobs

\* A process that went on to another place.
LEMMA PlaceState ==
    ASSUME NEW s \in States, NEW place \in Places
    PROVE  LET t == [s EXCEPT !.place = place] IN
           /\ t \in States /\ t.place = place /\ t.job = s.job /\ t.lease = s.lease
           /\ t.retained = s.retained /\ t.ticket = s.ticket /\ t.view = s.view
           /\ t.latched = s.latched /\ t.warned = s.warned
BY DEF States

\* A process that is done with what it did.
LEMMA IdleState ==
    ASSUME NEW p, NEW s \in States
    PROVE  LET t == Idle(p, s) IN
           /\ t \in States /\ t.place = "open" /\ t.lease = s.lease
           /\ t.retained = s.retained /\ t.ticket = s.ticket
           /\ t.latched = s.latched /\ t.warned = FALSE
<1>1. NoView \in [row : 0..Unowned, incident : BOOLEAN]
  BY FundsAssumption DEF NoView, Unowned
<1> QED
  BY <1>1 DEF States, Idle, Places, Jobs

\* A process that forgot its lease.
LEMMA ForgetState ==
    ASSUME NEW s \in States
    PROVE  LET t == [s EXCEPT !.lease = 0] IN
           /\ t \in States /\ t.place = s.place /\ t.lease = 0
           /\ t.retained = s.retained /\ t.latched = s.latched /\ t.warned = s.warned
BY FundsAssumption DEF States

\* A process whose hold failed.
LEMMA RetainedState ==
    ASSUME NEW s \in States, NEW place \in Places
    PROVE  LET t == [s EXCEPT !.place = place, !.retained = TRUE] IN
           /\ t \in States /\ t.place = place /\ t.lease = s.lease
           /\ t.retained = TRUE /\ t.latched = s.latched /\ t.warned = s.warned
BY DEF States

\* A process that looked at the database.
LEMMA ViewState ==
    ASSUME FundsTypeOK, NEW s \in States, NEW place \in Places
    PROVE  LET t == [s EXCEPT !.place = place, !.view = View] IN
           /\ t \in States /\ t.place = place /\ t.lease = s.lease /\ t.view = View
           /\ t.retained = s.retained /\ t.latched = s.latched /\ t.warned = s.warned
<1>1. View \in [row : 0..Unowned, incident : BOOLEAN]
  BY DEF FundsTypeOK, View
<1> QED
  BY <1>1 DEF States

\* A process that latched the breaker, or did not.
LEMMA LatchedState ==
    ASSUME NEW s \in States, NEW b \in BOOLEAN
    PROVE  LET t == [s EXCEPT !.latched = b] IN
           /\ t \in States /\ t.place = s.place /\ t.lease = s.lease
           /\ t.retained = s.retained /\ t.latched = b /\ t.warned = s.warned
BY DEF States

\* A process that was authorised.
LEMMA TicketState ==
    ASSUME NEW s \in States, NEW e \in 0..MaxEpochs
    PROVE  LET t == [s EXCEPT !.ticket = e] IN
           /\ t \in States /\ t.place = s.place /\ t.lease = s.lease
           /\ t.retained = s.retained /\ t.latched = s.latched /\ t.warned = s.warned
BY DEF States

-----------------------------------------------------------------------------
(* The same, for the process that takes the step and all others. *)

\* p is now at place with these values, and the others are where they were.
Moved(p, place, lease, retained, latched, warned) ==
    /\ proc' \in [Processes -> States]
    /\ \A q \in Processes \ {p} : proc'[q] = proc[q]
    /\ proc'[p].place = place /\ proc'[p].lease = lease /\ proc'[p].retained = retained
    /\ proc'[p].latched = latched /\ proc'[p].warned = warned

\* A process goes on, and keeps what it has read.
LEMMA GotoEffect ==
    ASSUME FundsTypeOK, NEW p \in Processes, NEW place \in Places, Goto(p, place)
    PROVE  /\ Moved(p, place, Lease(p), proc[p].retained, proc[p].latched, proc[p].warned)
           /\ proc'[p].view = proc[p].view
<1> DEFINE t == [proc[p] EXCEPT !.place = place]
<1>1. proc[p] \in States
  BY DEF FundsTypeOK
<1>2. /\ t \in States /\ t.place = place /\ t.lease = Lease(p) /\ t.view = proc[p].view
      /\ t.retained = proc[p].retained /\ t.latched = proc[p].latched /\ t.warned = proc[p].warned
  BY <1>1, PlaceState DEF Lease
<1>3. Become(p, t)
  BY DEF Goto
<1> HIDE DEF t
<1> QED
  BY <1>2, <1>3, Stepping DEF Moved

\* A process is done.
LEMMA IdleEffect ==
    ASSUME FundsTypeOK, NEW p \in Processes, Become(p, Idle(p, proc[p]))
    PROVE  Moved(p, "open", Lease(p), proc[p].retained, proc[p].latched, FALSE)
<1> DEFINE t == Idle(p, proc[p])
<1>1. proc[p] \in States
  BY DEF FundsTypeOK
<1>2. /\ t \in States /\ t.place = "open" /\ t.lease = Lease(p) /\ t.retained = proc[p].retained
      /\ t.latched = proc[p].latched /\ t.warned = FALSE
  BY <1>1, IdleState DEF Lease
<1>3. Become(p, t)
  OBVIOUS
<1> HIDE DEF t
<1> QED
  BY <1>2, <1>3, Stepping DEF Moved

\* A process ends.
LEMMA ClosedEffect ==
    ASSUME FundsTypeOK, NEW p \in Processes, Become(p, Closed)
    PROVE  Moved(p, "closed", 0, FALSE, FALSE, FALSE) /\ proc'[p] = Closed
<1>1. proc'[p] = Closed /\ proc' \in [Processes -> States]
      /\ \A q \in Processes \ {p} : proc'[q] = proc[q]
  BY ClosedState, Stepping
<1> QED
  BY <1>1 DEF Moved, Closed

\* A process opens the database.
LEMMA OpenEffect ==
    ASSUME FundsTypeOK, NEW p \in Processes, Become(p, IF established THEN [Closed EXCEPT !.place = "open"]
                 ELSE [Closed EXCEPT !.place = "marking", !.job = "open"])
    PROVE  \E place \in {"open", "marking"} : Moved(p, place, 0, FALSE, FALSE, FALSE)
<1> DEFINE t == IF established THEN [Closed EXCEPT !.place = "open"]
                 ELSE [Closed EXCEPT !.place = "marking", !.job = "open"]
<1>1. proc[p] \in States
  BY DEF FundsTypeOK
<1>2. /\ t \in States /\ t.place \in {"open", "marking"} /\ t.lease = 0
      /\ t.retained = FALSE /\ t.latched = FALSE /\ t.warned = FALSE
  BY <1>1, OpenedState DEF Lease, Closed
<1>3. Become(p, t)
  OBVIOUS
<1> HIDE DEF t
<1> QED
  BY <1>2, <1>3, Stepping DEF Moved

\* A process takes or gives back a lease.
LEMMA LeaseEffect ==
    ASSUME FundsTypeOK, NEW p \in Processes, NEW lease \in 0..MaxEpochs,
           Become(p, [proc[p] EXCEPT !.place = "open", !.lease = lease])
    PROVE  Moved(p, "open", lease, proc[p].retained, proc[p].latched, proc[p].warned)
<1> DEFINE t == [proc[p] EXCEPT !.place = "open", !.lease = lease]
<1>1. proc[p] \in States
  BY DEF FundsTypeOK
<1>2. "open" \in Places
  BY DEF Places
<1>3. /\ t \in States /\ t.place = "open" /\ t.lease = lease
      /\ t.retained = proc[p].retained /\ t.latched = proc[p].latched /\ t.warned = proc[p].warned
  BY <1>1, <1>2 DEF Lease, States
<1>4. Become(p, t)
  OBVIOUS
<1> HIDE DEF t
<1> QED
  BY <1>3, <1>4, Stepping DEF Moved

\* A process forgets its lease.
LEMMA ForgetEffect ==
    ASSUME FundsTypeOK, NEW p \in Processes, Become(p, [proc[p] EXCEPT !.lease = 0])
    PROVE  Moved(p, proc[p].place, 0, proc[p].retained, proc[p].latched, proc[p].warned)
<1> DEFINE t == [proc[p] EXCEPT !.lease = 0]
<1>1. proc[p] \in States
  BY DEF FundsTypeOK
<1>2. /\ t \in States /\ t.place = proc[p].place /\ t.lease = 0
      /\ t.retained = proc[p].retained /\ t.latched = proc[p].latched /\ t.warned = proc[p].warned
  BY <1>1, ForgetState DEF Lease
<1>3. Become(p, t)
  OBVIOUS
<1> HIDE DEF t
<1> QED
  BY <1>2, <1>3, Stepping DEF Moved

\* A process begins a hold.
LEMMA JobEffect ==
    ASSUME FundsTypeOK, NEW p \in Processes, NEW job \in Jobs,
           Become(p, [proc[p] EXCEPT !.place = "marking", !.job = job])
    PROVE  Moved(p, "marking", Lease(p), proc[p].retained, proc[p].latched, proc[p].warned)
<1> DEFINE t == [proc[p] EXCEPT !.place = "marking", !.job = job]
<1>1. proc[p] \in States
  BY DEF FundsTypeOK
<1>2. "marking" \in Places
  BY DEF Places
<1>3. /\ t \in States /\ t.place = "marking" /\ t.lease = Lease(p)
      /\ t.retained = proc[p].retained /\ t.latched = proc[p].latched /\ t.warned = proc[p].warned
  BY <1>1, <1>2 DEF Lease, States
<1>4. Become(p, t)
  OBVIOUS
<1> HIDE DEF t
<1> QED
  BY <1>3, <1>4, Stepping DEF Moved

\* A hold fails.
LEMMA RetainedEffect ==
    ASSUME FundsTypeOK, NEW p \in Processes, 
           Become(p, [proc[p] EXCEPT !.place = "unwitness", !.retained = TRUE])
    PROVE  Moved(p, "unwitness", Lease(p), TRUE, proc[p].latched, proc[p].warned)
<1> DEFINE t == [proc[p] EXCEPT !.place = "unwitness", !.retained = TRUE]
<1>1. proc[p] \in States
  BY DEF FundsTypeOK
<1>2. "unwitness" \in Places
  BY DEF Places
<1>3. /\ t \in States /\ t.place = "unwitness" /\ t.lease = Lease(p)
      /\ t.retained = TRUE /\ t.latched = proc[p].latched /\ t.warned = proc[p].warned
  BY <1>1, <1>2, RetainedState DEF Lease
<1>4. Become(p, t)
  OBVIOUS
<1> HIDE DEF t
<1> QED
  BY <1>3, <1>4, Stepping DEF Moved

\* A process reads the breaker.
LEMMA ViewEffect ==
    ASSUME FundsTypeOK, NEW p \in Processes, 
           Become(p, [proc[p] EXCEPT !.place = "reading", !.view = View])
    PROVE  /\ Moved(p, "reading", Lease(p), proc[p].retained, proc[p].latched, proc[p].warned)
           /\ proc'[p].view = View
<1> DEFINE t == [proc[p] EXCEPT !.place = "reading", !.view = View]
<1>1. proc[p] \in States
  BY DEF FundsTypeOK
<1>2. "reading" \in Places
  BY DEF Places
<1>3. /\ t \in States /\ t.place = "reading" /\ t.lease = Lease(p) /\ t.view = View
      /\ t.retained = proc[p].retained /\ t.latched = proc[p].latched /\ t.warned = proc[p].warned
  BY <1>1, <1>2, ViewState DEF Lease
<1>4. Become(p, t)
  OBVIOUS
<1> HIDE DEF t
<1> QED
  BY <1>3, <1>4, Stepping DEF Moved

\* A process has read the breaker.
LEMMA LatchedEffect ==
    ASSUME FundsTypeOK, NEW p \in Processes, NEW open \in BOOLEAN,
           Become(p, [Idle(p, proc[p]) EXCEPT !.latched = open])
    PROVE  Moved(p, "open", Lease(p), proc[p].retained, open, FALSE)
<1> DEFINE s == Idle(p, proc[p])
<1> DEFINE t == [s EXCEPT !.latched = open]
<1>1. proc[p] \in States
  BY DEF FundsTypeOK
<1>2. /\ s \in States /\ s.place = "open" /\ s.lease = Lease(p) /\ s.retained = proc[p].retained
      /\ s.latched = proc[p].latched /\ s.warned = FALSE
  BY <1>1, IdleState DEF Lease
<1>3. Lease(p) \in 0..MaxEpochs
  BY <1>1 DEF Lease, States
<1>4. Become(p, t)
  OBVIOUS
<1> HIDE DEF s
<1>5. /\ t \in States /\ t.place = "open" /\ t.lease = Lease(p)
      /\ t.retained = proc[p].retained /\ t.latched = open /\ t.warned = FALSE
  BY <1>2, <1>3, LatchedState
<1> HIDE DEF t
<1> QED
  BY <1>5, <1>4, Stepping DEF Moved

\* A process begins a check.
LEMMA CheckingEffect ==
    ASSUME FundsTypeOK, NEW p \in Processes, NEW job \in Jobs,
           Become(p, [proc[p] EXCEPT !.place = "checking", !.job = job, !.view = View,
                                       !.warned = history.reported])
    PROVE  /\ Moved(p, "checking", Lease(p), proc[p].retained, proc[p].latched, history.reported)
           /\ proc'[p].view = View
<1> DEFINE t == [proc[p] EXCEPT !.place = "checking", !.job = job, !.view = View,
                                       !.warned = history.reported]
<1>1. proc[p] \in States
  BY DEF FundsTypeOK
<1>2. history.reported \in BOOLEAN
  BY DEF FundsTypeOK, History
<1>3. View \in [row : 0..Unowned, incident : BOOLEAN]
  BY DEF FundsTypeOK, View
<1>4. /\ t \in States /\ t.place = "checking" /\ t.lease = Lease(p) /\ t.view = View
      /\ t.retained = proc[p].retained /\ t.latched = proc[p].latched /\ t.warned = history.reported
  BY <1>1, <1>2, <1>3 DEF Lease, States, Places
<1>5. Become(p, t)
  OBVIOUS
<1> HIDE DEF t
<1> QED
  BY <1>4, <1>5, Stepping DEF Moved

\* A process is authorised.
LEMMA TicketEffect ==
    ASSUME FundsTypeOK, NEW p \in Processes, 
           Become(p, [Idle(p, proc[p]) EXCEPT !.ticket = Lease(p)])
    PROVE  Moved(p, "open", Lease(p), proc[p].retained, proc[p].latched, FALSE)
<1> DEFINE s == Idle(p, proc[p])
<1> DEFINE t == [s EXCEPT !.ticket = Lease(p)]
<1>1. proc[p] \in States
  BY DEF FundsTypeOK
<1>2. /\ s \in States /\ s.place = "open" /\ s.lease = Lease(p) /\ s.retained = proc[p].retained
      /\ s.latched = proc[p].latched /\ s.warned = FALSE
  BY <1>1, IdleState DEF Lease
<1>3. Lease(p) \in 0..MaxEpochs
  BY <1>1 DEF Lease, States
<1>4. Become(p, t)
  OBVIOUS
<1> HIDE DEF s
<1>5. /\ t \in States /\ t.place = "open" /\ t.lease = Lease(p)
      /\ t.retained = proc[p].retained /\ t.latched = proc[p].latched /\ t.warned = FALSE
  BY <1>2, <1>3, TicketState
<1> HIDE DEF t
<1> QED
  BY <1>5, <1>4, Stepping DEF Moved

\* A failed hold throws.
LEMMA ThrowEffect ==
    ASSUME FundsTypeOK, NEW p \in Processes, Throw(p)
    PROVE  \/ Moved(p, "closed", 0, FALSE, FALSE, FALSE) /\ proc'[p] = Closed
           \/ Moved(p, "open", Lease(p), proc[p].retained, proc[p].latched, FALSE)
<1>1. CASE proc[p].job = "open"
  BY <1>1, ClosedEffect DEF Throw
<1>2. CASE proc[p].job # "open"
  BY <1>2, IdleEffect DEF Throw
<1> QED
  BY <1>1, <1>2

-----------------------------------------------------------------------------
(* What a step leaves alone. *)

\* Neither lock nor row nor a lease changes.
SameLeases ==
    /\ row' = row /\ lock' = lock /\ epochs' = epochs /\ history'.died = history.died
    /\ \A f \in {"lock lost", "backup restored"} : f \in faults' <=> f \in faults
    /\ \A q \in Processes :
        /\ proc'[q].lease = proc[q].lease
        /\ \A place \in {"closed", "locked", "withdrawing", "releasing"} :
              proc'[q].place = place <=> proc[q].place = place

\* A step that takes or gives up no lease and no lock keeps what is known of them.
LEMMA LeasesKept ==
    ASSUME LeaseInv, LockInv, DiedInv, SameLeases
    PROVE  LeaseInv' /\ LockInv' /\ DiedInv'
<1>1. LeaseInv'
  <2>1. /\ row' = row /\ epochs' = epochs
        /\ \A q \in Processes : Lease(q)' = Lease(q) /\ (At(q, "releasing")' <=> At(q, "releasing"))
    BY DEF SameLeases, Lease, At
  <2>2. \A q \in Processes : proc'[q].place \in {"closed", "locked", "withdrawing"} =>
                               proc[q].place \in {"closed", "locked", "withdrawing"}
    BY DEF SameLeases
  <2> QED
    BY <2>1, <2>2 DEF LeaseInv, Holder, Unowned
<1>2. LockInv'
  BY DEF SameLeases, LockInv, InLock, Lease
<1>3. DiedInv'
  BY DEF SameLeases, DiedInv, InLock, Lease
<1> QED
  BY <1>1, <1>2, <1>3

\* The lock file keeps its owner when nobody new comes into it.
LEMMA LockKept ==
    ASSUME LockInv, lock' = lock, "lock lost" \in faults => "lock lost" \in faults',
           \A q \in Processes : InLock(q)' => InLock(q)
    PROVE  LockInv'
BY DEF LockInv

\* What a dead process left stays when nobody new comes into the lock.
LEMMA DiedKept ==
    ASSUME DiedInv, lock' = lock, row' = row, history'.died => history.died,
           \A f \in {"lock lost", "backup restored"} : f \in faults => f \in faults',
           \A q \in Processes : InLock(q)' => InLock(q),
           \A q \in Processes : Lease(q)' \in {0, Lease(q)}
    PROVE  DiedInv'
BY DEF DiedInv

\* What a process has read stays so when another does not write, or nobody is
\* inside a transaction.
LEMMA ViewsKept ==
    ASSUME ViewInv, NEW p \in Processes,
           \A q \in Processes \ {p} : proc'[q] = proc[q],
           proc'[p].place \notin {"reading", "checking", "cleared"},
           incident => incident',
           Unlocked \/ (row' = row /\ incident' = incident),
           SingleFault' /\ ~history'.shadowed => SingleFault /\ ~history.shadowed
    PROVE  ViewInv'
<1> SUFFICES ASSUME NEW q \in Processes
             PROVE  /\ At(q, "reading")' => (proc'[q].view.incident => incident')
                    /\ proc'[q].place \in {"checking", "cleared"} =>
                          /\ proc'[q].view = View'
                          /\ \A r \in Processes : proc'[r].place \in {"checking", "cleared"} => r = q
                    /\ At(q, "cleared")' =>
                          /\ Lease(q)' # 0 /\ ~incident'
                          /\ ~(proc'[q].warned /\ SingleFault' /\ ~history'.shadowed)
  BY DEF ViewInv
<1>1. CASE q = p
  BY <1>1 DEF At
<1>2. CASE q # p
  <2>1. proc'[q] = proc[q]
    BY <1>2
  <2>2. At(q, "reading")' => (proc'[q].view.incident => incident')
    BY <2>1 DEF ViewInv, At, Lease
  <2>3. ASSUME proc'[q].place \in {"checking", "cleared"}
        PROVE  /\ row' = row /\ incident' = incident
               /\ proc'[q].view = View'
               /\ \A r \in Processes : proc'[r].place \in {"checking", "cleared"} => r = q
    <3>1. row' = row /\ incident' = incident
      BY <2>1, <2>3 DEF Unlocked
    <3>2. proc[q].view = View /\ \A r \in Processes : proc[r].place \in {"checking", "cleared"} => r = q
      BY <2>1, <2>3 DEF ViewInv
    <3>3. proc'[q].view = View'
      BY <2>1, <3>1, <3>2 DEF View
    <3>4. ASSUME NEW r \in Processes, proc'[r].place \in {"checking", "cleared"}
          PROVE  r = q
      BY <3>2, <3>4
    <3> QED
      BY <3>1, <3>3, <3>4
  <2>4. ASSUME At(q, "cleared")'
        PROVE  /\ Lease(q)' # 0 /\ ~incident'
               /\ ~(proc'[q].warned /\ SingleFault' /\ ~history'.shadowed)
    BY <2>1, <2>3, <2>4 DEF ViewInv, At, Lease
  <2> QED
    BY <2>2, <2>3, <2>4
<1> QED
  BY <1>1, <1>2

\* What is said of a process that ends without giving its lease back.
LEMMA AbandonsEffect ==
    ASSUME FundsTypeOK, NEW p \in Processes, Abandons(p)
    PROVE  /\ history' \in History
           /\ history'.reported = history.reported /\ history'.shadowed = history.shadowed
           /\ history'.died <=> history.died \/ (Lease(p) # 0 /\ row = Lease(p))
BY DEF FundsTypeOK, History, Abandons

-----------------------------------------------------------------------------
(* One lemma per action. *)

\* A process that latches the breaker under its lease has a reason to.
NotMisled ==
    \A p \in Processes :
        Holder(p) /\ ~proc[p].latched /\ proc'[p].latched =>
            \/ ~established \/ marker \/ ~witness \/ incident
            \/ proc[p].retained \/ "lock lost" \in faults

\* The constructor takes nothing: it opens, or begins a hold.
LEMMA OpenStep ==
    ASSUME FundsInv, NEW p \in Processes, Open(p)
    PROVE  FundsInv' /\ NotMisled
<1>1. \E place \in {"open", "marking"} : Moved(p, place, 0, FALSE, FALSE, FALSE)
  BY OpenEffect DEF Open, FundsInv
<1>2. FundsTypeOK'
  BY <1>1 DEF Open, Moved, files, database, bounds, FundsInv, FundsTypeOK
<1>3. LeaseInv'
 BY <1>1 DEF Open, Moved, database, bounds, FundsInv, FundsTypeOK, LeaseInv, Holder, Lease, At,
     Unowned
<1>4. LockInv'
  BY <1>1 DEF Open, Moved, files, bounds, FundsInv, LockInv, InLock, Lease, At
<1>5. DiedInv'
  BY <1>1 DEF Open, Moved, files, database, bounds, FundsInv, DiedInv, InLock, Lease, At
<1>6. StepInv'
  BY <1>1 DEF Open, Moved, files, bounds, FundsInv, StepInv, At
<1>7. HoldInv'
 BY <1>1 DEF Open, Moved, files, database, bounds, FundsInv, HoldInv, RowKeeps, SingleFault,
     Lease
<1>8. ViewInv'
  <2>1. SingleFault' /\ ~history'.shadowed => SingleFault /\ ~history.shadowed
    BY DEF Open, bounds, FundsInv, FundsTypeOK, History, SingleFault
  <2> QED
    BY <1>1, <2>1, ViewsKept DEF Open, Moved, files, database, bounds, FundsInv
<1>9. NotMisled
  BY <1>1 DEF Moved, NotMisled
<1> QED
  BY <1>2, <1>3, <1>4, <1>5, <1>6, <1>7, <1>8, <1>9 DEF FundsInv

\* A process that closes without giving its lease back leaves lock and row.
LEMMA CloseStep ==
    ASSUME FundsInv, NEW p \in Processes, Close(p)
    PROVE  FundsInv' /\ NotMisled
<1>1. Moved(p, "closed", 0, FALSE, FALSE, FALSE) /\ proc'[p] = Closed
  BY ClosedEffect DEF Close, FundsInv
<1>2. FundsTypeOK'
  BY <1>1, AbandonsEffect DEF Close, Moved, files, database, bounds, FundsInv, FundsTypeOK
<1>3. LeaseInv'
 BY <1>1 DEF Close, Moved, database, bounds, FundsInv, FundsTypeOK, LeaseInv, Holder, Lease, At,
     Unowned
<1>4. LockInv'
  BY <1>1 DEF Close, Moved, files, bounds, FundsInv, LockInv, InLock, Lease, At
<1>5. DiedInv'
  <2>1. lock' = lock /\ row' = row /\ faults' = faults
    BY DEF Close, files, database, bounds
  <2>2. \A q \in Processes : InLock(q)' => InLock(q)
    BY <1>1 DEF Moved, InLock, Lease, Close, At
  <2>3. \A q \in Processes : Lease(q)' \in {0, Lease(q)}
    BY <1>1 DEF Moved, Lease
  <2>4. ~InLock(p)'
    BY <1>1 DEF Moved, InLock, Lease
  <2>5. history'.died <=> history.died \/ (Lease(p) # 0 /\ row = Lease(p))
    BY AbandonsEffect DEF Close, FundsInv
  <2>6. CASE Lease(p) # 0 /\ row = Lease(p)
    <3>1. "lock lost" \notin faults' => lock' /\ \A q \in Processes : ~InLock(q)'
      BY <2>1, <2>2, <2>4, <2>6 DEF FundsInv, LockInv, InLock
    <3>2. row' # 0 /\ \A q \in Processes : Lease(q)' # row'
      BY <1>1, <2>1, <2>3, <2>6 DEF FundsInv, LeaseInv, Moved, Lease
    <3> QED
      BY <3>1, <3>2 DEF DiedInv
  <2>7. CASE ~(Lease(p) # 0 /\ row = Lease(p))
    BY <2>1, <2>2, <2>3, <2>5, <2>7, DiedKept DEF FundsInv
  <2> QED
    BY <2>6, <2>7
<1>6. StepInv'
  BY <1>1, AbandonsEffect DEF Close, Moved, files, bounds, FundsInv, StepInv, At
<1>7. HoldInv'
 BY <1>1, AbandonsEffect DEF Close, Moved, files, database, bounds, FundsInv, HoldInv, RowKeeps,
     SingleFault, Lease
<1>8. ViewInv'
  <2>1. SingleFault' /\ ~history'.shadowed => SingleFault /\ ~history.shadowed
    BY AbandonsEffect DEF Close, bounds, FundsInv, SingleFault
  <2> QED
    BY <1>1, <2>1, ViewsKept DEF Close, Moved, files, database, bounds, FundsInv
<1>9. NotMisled
  BY <1>1 DEF Moved, NotMisled
<1> QED
  BY <1>2, <1>3, <1>4, <1>5, <1>6, <1>7, <1>8, <1>9 DEF FundsInv

\* So does one that dies.
LEMMA CrashStep ==
    ASSUME FundsInv, NEW p \in Processes, Crash(p)
    PROVE  FundsInv' /\ NotMisled
<1>1. Moved(p, "closed", 0, FALSE, FALSE, FALSE) /\ proc'[p] = Closed
  BY ClosedEffect DEF Crash, FundsInv
<1>2. FundsTypeOK'
  <2>1. history' \in History
    BY AbandonsEffect DEF Crash, FundsInv
  <2>2. crashes' \in Nat
    BY DEF Crash, FundsInv, FundsTypeOK
  <2> QED
    BY <1>1, <2>1, <2>2 DEF Crash, Moved, files, database, FundsInv, FundsTypeOK
<1>3. LeaseInv'
 BY <1>1 DEF Crash, Moved, database, bounds, FundsInv, FundsTypeOK, LeaseInv, Holder, Lease, At,
     Unowned
<1>4. LockInv'
  BY <1>1 DEF Crash, Moved, files, bounds, FundsInv, LockInv, InLock, Lease, At
<1>5. DiedInv'
  <2>1. lock' = lock /\ row' = row /\ faults' = faults
    BY DEF Crash, files, database, bounds
  <2>2. \A q \in Processes : InLock(q)' => InLock(q)
    BY <1>1 DEF Moved, InLock, Lease, Crash, At
  <2>3. \A q \in Processes : Lease(q)' \in {0, Lease(q)}
    BY <1>1 DEF Moved, Lease
  <2>4. ~InLock(p)'
    BY <1>1 DEF Moved, InLock, Lease
  <2>5. history'.died <=> history.died \/ (Lease(p) # 0 /\ row = Lease(p))
    BY AbandonsEffect DEF Crash, FundsInv
  <2>6. CASE Lease(p) # 0 /\ row = Lease(p)
    <3>1. "lock lost" \notin faults' => lock' /\ \A q \in Processes : ~InLock(q)'
      BY <2>1, <2>2, <2>4, <2>6 DEF FundsInv, LockInv, InLock
    <3>2. row' # 0 /\ \A q \in Processes : Lease(q)' # row'
      BY <1>1, <2>1, <2>3, <2>6 DEF FundsInv, LeaseInv, Moved, Lease
    <3> QED
      BY <3>1, <3>2 DEF DiedInv
  <2>7. CASE ~(Lease(p) # 0 /\ row = Lease(p))
    BY <2>1, <2>2, <2>3, <2>5, <2>7, DiedKept DEF FundsInv
  <2> QED
    BY <2>6, <2>7
<1>6. StepInv'
  BY <1>1, AbandonsEffect DEF Crash, Moved, files, bounds, FundsInv, StepInv, At
<1>7. HoldInv'
 BY <1>1, AbandonsEffect DEF Crash, Moved, files, database, bounds, FundsInv, HoldInv, RowKeeps,
     SingleFault, Lease
<1>8. ViewInv'
  <2>1. SingleFault' /\ ~history'.shadowed => SingleFault /\ ~history.shadowed
    BY AbandonsEffect DEF Crash, bounds, FundsInv, SingleFault
  <2> QED
    BY <1>1, <2>1, ViewsKept DEF Crash, Moved, files, database, bounds, FundsInv
<1>9. NotMisled
  BY <1>1 DEF Moved, NotMisled
<1> QED
  BY <1>2, <1>3, <1>4, <1>5, <1>6, <1>7, <1>8, <1>9 DEF FundsInv

\* The lock file that did not exist has one owner.
LEMMA BeginAcquireStep ==
    ASSUME FundsInv, NEW p \in Processes, BeginAcquire(p)
    PROVE  FundsInv' /\ NotMisled
<1>1. Moved(p, "locked", Lease(p), proc[p].retained, proc[p].latched, proc[p].warned)
  BY GotoEffect DEF BeginAcquire, Places, FundsInv
<1>2. FundsTypeOK'
  BY <1>1 DEF BeginAcquire, Moved, files, database, bounds, FundsInv, FundsTypeOK
<1>3. LeaseInv'
 BY <1>1 DEF BeginAcquire, Moved, database, bounds, FundsInv, FundsTypeOK, LeaseInv, Holder,
     Lease, At, Unowned
<1>4. LockInv'
  BY <1>1 DEF BeginAcquire, Moved, files, bounds, FundsInv, LockInv, InLock, Lease, At
<1>5. DiedInv'
  <2>1. ASSUME history.died
        PROVE  "lock lost" \in faults
    BY <2>1 DEF BeginAcquire, FundsInv, DiedInv
  <2>2. \A q \in Processes : Lease(q)' = Lease(q)
    BY <1>1 DEF Moved, Lease
  <2> QED
    BY <2>1, <2>2 DEF BeginAcquire, FundsInv, DiedInv, database, bounds
<1>6. StepInv'
  BY <1>1 DEF BeginAcquire, Moved, files, bounds, FundsInv, StepInv, At
<1>7. HoldInv'
 BY <1>1 DEF BeginAcquire, Moved, files, database, bounds, FundsInv, HoldInv, RowKeeps,
     SingleFault, Lease
<1>8. ViewInv'
  <2>1. SingleFault' /\ ~history'.shadowed => SingleFault /\ ~history.shadowed
    BY DEF BeginAcquire, bounds, FundsInv, FundsTypeOK, History, SingleFault
  <2> QED
    BY <1>1, <2>1, ViewsKept DEF BeginAcquire, Moved, files, database, bounds, FundsInv
<1>9. NotMisled
  BY <1>1 DEF Moved, NotMisled
<1> QED
  BY <1>2, <1>3, <1>4, <1>5, <1>6, <1>7, <1>8, <1>9 DEF FundsInv

\* The owner of the lock takes an epoch that was never used.
LEMMA TakeRowStep ==
    ASSUME FundsInv, NEW p \in Processes, TakeRow(p)
    PROVE  FundsInv' /\ NotMisled
<1>1. epochs + 1 \in 0..MaxEpochs /\ epochs + 1 # 0
  BY FundsAssumption DEF TakeRow, FundsInv, FundsTypeOK
<1>2. Moved(p, "open", epochs + 1, proc[p].retained, proc[p].latched, proc[p].warned)
  BY <1>1, LeaseEffect DEF TakeRow, FundsInv
<1>3. FundsTypeOK'
  <2>1. epochs + 1 \in 0..Unowned
    BY <1>1, FundsAssumption DEF Unowned
  <2> QED
    BY <1>2, <1>1, <2>1 DEF TakeRow, Moved, files, FundsInv, FundsTypeOK
<1>4. LeaseInv'
  <2>1. /\ row = 0 /\ row' = epochs + 1 /\ epochs' = epochs + 1 /\ epochs \in Nat
        /\ \A q \in Processes : Lease(q) \in Nat
    BY DEF TakeRow, FundsInv, FundsTypeOK, States, Lease
  <2>2. \A q \in Processes \ {p} : ~Holder(q) /\ ~Holder(q)' /\ Lease(q)' = Lease(q) /\ Lease(q) <= epochs
    BY <1>2, <2>1 DEF Moved, FundsInv, LeaseInv, Holder, Lease, At
  <2>3. /\ Lease(p)' = epochs + 1 /\ proc'[p].place = "open"
        /\ \A q \in Processes \ {p} : proc'[q] = proc[q]
    BY <1>2 DEF Moved, Lease
  <2> QED
    BY <1>1, <2>1, <2>2, <2>3 DEF FundsInv, LeaseInv, Holder, At
<1>5. LockInv'
  <2>1. \A q \in Processes : InLock(q)' => InLock(q)
    BY <1>2 DEF Moved, InLock, Lease, TakeRow, At
  <2> QED
    BY <2>1, LockKept DEF TakeRow, files, FundsInv
<1>6. DiedInv'
  BY <1>2 DEF TakeRow, Moved, files, database, bounds, FundsInv, DiedInv, InLock, Lease, At
<1>7. StepInv'
  BY <1>2 DEF TakeRow, Moved, files, bounds, FundsInv, StepInv, At
<1>8. HoldInv'
 BY <1>2 DEF TakeRow, Moved, files, database, bounds, FundsInv, HoldInv, RowKeeps, SingleFault,
     Lease
<1>9. ViewInv'
  <2>1. SingleFault' /\ ~history'.shadowed => SingleFault /\ ~history.shadowed
    BY DEF TakeRow, bounds, FundsInv, FundsTypeOK, History, SingleFault
  <2> QED
    BY <1>2, <2>1, ViewsKept DEF TakeRow, Moved, files, database, bounds, FundsInv
<1>10. NotMisled
  BY <1>2 DEF Moved, NotMisled
<1> QED
  BY <1>3, <1>4, <1>5, <1>6, <1>7, <1>8, <1>9, <1>10 DEF FundsInv

\* A failed acquisition still owns the lock file.
LEMMA AcquireFailsStep ==
    ASSUME FundsInv, NEW p \in Processes, AcquireFails(p)
    PROVE  FundsInv' /\ NotMisled
<1>1. Moved(p, "withdrawing", Lease(p), proc[p].retained, proc[p].latched, proc[p].warned)
  BY GotoEffect DEF AcquireFails, Places, FundsInv
<1>2. FundsTypeOK'
  BY <1>1 DEF AcquireFails, Moved, files, database, bounds, FundsInv, FundsTypeOK
<1>3. LeaseInv'
 BY <1>1 DEF AcquireFails, Moved, database, bounds, FundsInv, FundsTypeOK, LeaseInv, Holder,
     Lease, At, Unowned
<1>4. LockInv'
  <2>1. \A q \in Processes : InLock(q)' => InLock(q)
    BY <1>1 DEF Moved, InLock, Lease, AcquireFails, At
  <2> QED
    BY <2>1, LockKept DEF AcquireFails, files, bounds, FundsInv
<1>5. DiedInv'
  BY <1>1 DEF AcquireFails, Moved, files, database, bounds, FundsInv, DiedInv, InLock, Lease, At
<1>6. StepInv'
  BY <1>1 DEF AcquireFails, Moved, files, bounds, FundsInv, StepInv, At
<1>7. HoldInv'
 BY <1>1 DEF AcquireFails, Moved, files, database, bounds, FundsInv, HoldInv, RowKeeps,
     SingleFault, Lease
<1>8. ViewInv'
  <2>1. SingleFault' /\ ~history'.shadowed => SingleFault /\ ~history.shadowed
    BY DEF AcquireFails, bounds, FundsInv, FundsTypeOK, History, SingleFault
  <2> QED
    BY <1>1, <2>1, ViewsKept DEF AcquireFails, Moved, files, database, bounds, FundsInv
<1>9. NotMisled
  BY <1>1 DEF Moved, NotMisled
<1> QED
  BY <1>2, <1>3, <1>4, <1>5, <1>6, <1>7, <1>8, <1>9 DEF FundsInv

\* Its owner removes the lock file, or leaves it.
LEMMA WithdrawStep ==
    ASSUME FundsInv, NEW p \in Processes, Withdraw(p)
    PROVE  FundsInv' /\ NotMisled
<1>1. Moved(p, "open", Lease(p), proc[p].retained, proc[p].latched, proc[p].warned)
  BY GotoEffect DEF Withdraw, Places, FundsInv
<1>2. FundsTypeOK'
  BY <1>1 DEF Withdraw, Moved, files, database, bounds, FundsInv, FundsTypeOK
<1>3. LeaseInv'
 BY <1>1 DEF Withdraw, Moved, database, bounds, FundsInv, FundsTypeOK, LeaseInv, Holder, Lease,
     At, Unowned
<1>4. LockInv'
  <2>1. ~InLock(p)' /\ InLock(p)
    BY <1>1 DEF Withdraw, Moved, FundsInv, LeaseInv, InLock, Lease, At
  <2>2. \A q \in Processes \ {p} : InLock(q)' => InLock(q)
    BY <1>1 DEF Moved, InLock, Lease
  <2>3. "lock lost" \notin faults' => \A q \in Processes : ~InLock(q)'
    BY <2>1, <2>2 DEF Withdraw, bounds, FundsInv, LockInv
  <2> QED
    BY <2>3 DEF LockInv
<1>5. DiedInv'
  BY <1>1 DEF Withdraw, Moved, files, database, bounds, FundsInv, DiedInv, InLock, Lease, At
<1>6. StepInv'
  BY <1>1 DEF Withdraw, Moved, files, bounds, FundsInv, StepInv, At
<1>7. HoldInv'
 BY <1>1 DEF Withdraw, Moved, files, database, bounds, FundsInv, HoldInv, RowKeeps, SingleFault,
     Lease
<1>8. ViewInv'
  <2>1. SingleFault' /\ ~history'.shadowed => SingleFault /\ ~history.shadowed
    BY DEF Withdraw, bounds, FundsInv, FundsTypeOK, History, SingleFault
  <2> QED
    BY <1>1, <2>1, ViewsKept DEF Withdraw, Moved, files, database, bounds, FundsInv
<1>9. NotMisled
  BY <1>1 DEF Moved, NotMisled
<1> QED
  BY <1>2, <1>3, <1>4, <1>5, <1>6, <1>7, <1>8, <1>9 DEF FundsInv

\* Only a row that no hold relies on is deleted.
LEMMA BeginReleaseStep ==
    ASSUME FundsInv, NEW p \in Processes, BeginRelease(p)
    PROVE  FundsInv' /\ NotMisled
<1>1. Moved(p, "releasing", Lease(p), proc[p].retained, proc[p].latched, proc[p].warned)
  BY GotoEffect DEF BeginRelease, Places, FundsInv
<1>2. /\ Lease(p) # 0 /\ ~proc[p].retained /\ lock /\ row = Lease(p)
      /\ row' = 0 /\ At(p, "open")
  BY DEF BeginRelease, Owned
<1>3. FundsTypeOK'
  <2>1. row' \in 0..Unowned
    BY <1>2, FundsAssumption DEF Unowned
  <2> QED
    BY <1>1, <2>1 DEF BeginRelease, Moved, files, bounds, FundsInv, FundsTypeOK
<1>4. LeaseInv'
 BY <1>1, <1>2 DEF BeginRelease, Moved, bounds, FundsInv, LeaseInv, FundsTypeOK, Holder, Lease,
     At
<1>5. LockInv'
  <2>1. \A q \in Processes : InLock(q)' => InLock(q)
    BY <1>1, <1>2 DEF Moved, InLock, Lease
  <2> QED
    BY <2>1, LockKept DEF BeginRelease, files, bounds, FundsInv
<1>6. DiedInv'
  <2>1. ASSUME history.died
        PROVE  "lock lost" \in faults /\ "backup restored" \in faults
    BY <1>2, <2>1 DEF FundsInv, DiedInv, InLock
  <2> QED
    BY <2>1 DEF BeginRelease, DiedInv, bounds
<1>7. StepInv'
  BY <1>1 DEF BeginRelease, Moved, files, bounds, FundsInv, StepInv, At
<1>8. HoldInv'
  <2>1. ~RowKeeps
    BY <1>2 DEF RowKeeps
  <2> QED
    BY <2>1 DEF BeginRelease, files, bounds, FundsInv, HoldInv, SingleFault
<1>9. ViewInv'
  <2>1. SingleFault' /\ ~history'.shadowed => SingleFault /\ ~history.shadowed
    BY DEF BeginRelease, bounds, FundsInv, FundsTypeOK, History, SingleFault
  <2> QED
    BY <1>1, <2>1, ViewsKept DEF BeginRelease, Moved, files, database, bounds, FundsInv
<1>10. NotMisled
  BY <1>1 DEF Moved, NotMisled
<1> QED
  BY <1>3, <1>4, <1>5, <1>6, <1>7, <1>8, <1>9, <1>10 DEF FundsInv

\* The lock goes after the row.
LEMMA EndReleaseStep ==
    ASSUME FundsInv, NEW p \in Processes, EndRelease(p)
    PROVE  FundsInv' /\ NotMisled
<1>1. 0 \in 0..MaxEpochs
  BY FundsAssumption
<1>2. Moved(p, "open", 0, proc[p].retained, proc[p].latched, proc[p].warned)
  BY <1>1, LeaseEffect DEF EndRelease, FundsInv
<1>3. FundsTypeOK'
  BY <1>2 DEF EndRelease, Moved, files, database, bounds, FundsInv, FundsTypeOK
<1>4. LeaseInv'
 BY <1>2 DEF EndRelease, Moved, database, bounds, FundsInv, FundsTypeOK, LeaseInv, Holder,
     Lease, At, Unowned
<1>5. LockInv'
  BY <1>2 DEF EndRelease, Moved, files, bounds, FundsInv, LockInv, InLock, Lease, At
<1>6. DiedInv'
  BY <1>2 DEF EndRelease, Moved, files, database, bounds, FundsInv, DiedInv, InLock, Lease, At
<1>7. StepInv'
  BY <1>2 DEF EndRelease, Moved, files, bounds, FundsInv, StepInv, At
<1>8. HoldInv'
 BY <1>2 DEF EndRelease, Moved, files, database, bounds, FundsInv, HoldInv, RowKeeps,
     SingleFault, Lease
<1>9. ViewInv'
  <2>1. SingleFault' /\ ~history'.shadowed => SingleFault /\ ~history.shadowed
    BY DEF EndRelease, bounds, FundsInv, FundsTypeOK, History, SingleFault
  <2> QED
    BY <1>2, <2>1, ViewsKept DEF EndRelease, Moved, files, database, bounds, FundsInv
<1>10. NotMisled
  BY <1>2 DEF Moved, NotMisled
<1> QED
  BY <1>3, <1>4, <1>5, <1>6, <1>7, <1>8, <1>9, <1>10 DEF FundsInv

\* A lease that cannot be given back is forgotten, not inherited.
LEMMA ReleaseFailsStep ==
    ASSUME FundsInv, NEW p \in Processes, ReleaseFails(p)
    PROVE  FundsInv' /\ NotMisled
<1>1. Moved(p, "open", 0, proc[p].retained, proc[p].latched, proc[p].warned)
  BY ForgetEffect DEF ReleaseFails, At, FundsInv
<1>2. FundsTypeOK'
 BY <1>1, AbandonsEffect DEF ReleaseFails, Moved, files, database, bounds, FundsInv, FundsTypeOK
<1>3. LeaseInv'
 BY <1>1 DEF ReleaseFails, Moved, database, bounds, FundsInv, FundsTypeOK, LeaseInv, Holder,
     Lease, At, Unowned
<1>4. LockInv'
  BY <1>1 DEF ReleaseFails, Moved, files, bounds, FundsInv, LockInv, InLock, Lease, At
<1>5. DiedInv'
  <2>1. lock' = lock /\ row' = row /\ faults' = faults
    BY DEF ReleaseFails, files, database, bounds
  <2>2. \A q \in Processes : InLock(q)' => InLock(q)
    BY <1>1 DEF Moved, InLock, Lease, ReleaseFails, At
  <2>3. \A q \in Processes : Lease(q)' \in {0, Lease(q)}
    BY <1>1 DEF Moved, Lease
  <2>4. ~InLock(p)'
    BY <1>1 DEF Moved, InLock, Lease
  <2>5. history'.died <=> history.died \/ (Lease(p) # 0 /\ row = Lease(p))
    BY AbandonsEffect DEF ReleaseFails, FundsInv
  <2>6. CASE Lease(p) # 0 /\ row = Lease(p)
    <3>1. "lock lost" \notin faults' => lock' /\ \A q \in Processes : ~InLock(q)'
      BY <2>1, <2>2, <2>4, <2>6 DEF FundsInv, LockInv, InLock
    <3>2. row' # 0 /\ \A q \in Processes : Lease(q)' # row'
      BY <1>1, <2>1, <2>3, <2>6 DEF FundsInv, LeaseInv, Moved, Lease
    <3> QED
      BY <3>1, <3>2 DEF DiedInv
  <2>7. CASE ~(Lease(p) # 0 /\ row = Lease(p))
    BY <2>1, <2>2, <2>3, <2>5, <2>7, DiedKept DEF FundsInv
  <2> QED
    BY <2>6, <2>7
<1>6. StepInv'
  BY <1>1, AbandonsEffect DEF ReleaseFails, Moved, files, bounds, FundsInv, StepInv, At
<1>7. HoldInv'
 BY <1>1, AbandonsEffect DEF ReleaseFails, Moved, files, database, bounds, FundsInv, HoldInv,
     RowKeeps, SingleFault, Lease
<1>8. ViewInv'
  <2>1. SingleFault' /\ ~history'.shadowed => SingleFault /\ ~history.shadowed
    BY AbandonsEffect DEF ReleaseFails, bounds, FundsInv, SingleFault
  <2> QED
    BY <1>1, <2>1, ViewsKept DEF ReleaseFails, Moved, files, database, bounds, FundsInv
<1>9. NotMisled
  BY <1>1 DEF Moved, NotMisled
<1> QED
  BY <1>2, <1>3, <1>4, <1>5, <1>6, <1>7, <1>8, <1>9 DEF FundsInv

\* A hold begins.
LEMMA HoldStep ==
    ASSUME FundsInv, NEW p \in Processes, NEW job \in {"hold", "incident"}, Hold(p, job)
    PROVE  FundsInv' /\ NotMisled
<1>1. Moved(p, "marking", Lease(p), proc[p].retained, proc[p].latched, proc[p].warned)
  BY JobEffect DEF Hold, FundsInv, Jobs
<1>2. FundsTypeOK'
  BY <1>1 DEF Hold, Moved, files, database, bounds, FundsInv, FundsTypeOK
<1>3. SameLeases
 BY <1>1 DEF Hold, Moved, files, database, bounds, FundsInv, FundsTypeOK, History, SameLeases,
     Lease, At
<1>4. LeaseInv' /\ LockInv' /\ DiedInv'
  BY <1>3, LeasesKept DEF FundsInv
<1>5. StepInv'
  BY <1>1 DEF Hold, Moved, files, bounds, FundsInv, StepInv, At
<1>6. HoldInv'
 BY <1>1 DEF Hold, Moved, files, database, bounds, FundsInv, HoldInv, RowKeeps, SingleFault,
     Lease
<1>7. ViewInv'
  <2>1. SingleFault' /\ ~history'.shadowed => SingleFault /\ ~history.shadowed
    BY DEF Hold, bounds, FundsInv, FundsTypeOK, History, SingleFault
  <2> QED
    BY <1>1, <2>1, ViewsKept DEF Hold, Moved, files, database, bounds, FundsInv
<1>8. NotMisled
  BY <1>1 DEF Moved, NotMisled
<1> QED
  BY <1>2, <1>4, <1>5, <1>6, <1>7, <1>8 DEF FundsInv

\* A hold that is reported has its marker.
LEMMA MarkStep ==
    ASSUME FundsInv, NEW p \in Processes, Mark(p)
    PROVE  FundsInv' /\ NotMisled
<1>1. \/ Moved(p, "recording", Lease(p), proc[p].retained, proc[p].latched, proc[p].warned)
      \/ Moved(p, "open", Lease(p), proc[p].retained, proc[p].latched, FALSE)
  BY IdleEffect, GotoEffect DEF Mark, Goto, Places, FundsInv
<1>2. FundsTypeOK'
  BY <1>1 DEF Mark, Moved, files, database, bounds, FundsInv, FundsTypeOK, History
<1>3. SameLeases
 BY <1>1 DEF Mark, Moved, files, database, bounds, FundsInv, FundsTypeOK, History, SameLeases,
     Lease, At
<1>4. LeaseInv' /\ LockInv' /\ DiedInv'
  BY <1>3, LeasesKept DEF FundsInv
<1>5. StepInv'
  BY <1>1 DEF Mark, Moved, files, bounds, FundsInv, StepInv, At, FundsTypeOK, History
<1>6. HoldInv'
 BY <1>1 DEF Mark, Moved, files, database, bounds, FundsInv, HoldInv, RowKeeps, SingleFault,
     Lease
<1>7. ViewInv'
  <2>1. SingleFault' /\ ~history'.shadowed => SingleFault /\ ~history.shadowed
    BY DEF Mark, bounds, FundsInv, FundsTypeOK, History, SingleFault
  <2> QED
    BY <1>1, <2>1, ViewsKept DEF Mark, Moved, files, database, bounds, FundsInv
<1>8. NotMisled
  BY <1>1 DEF Moved, NotMisled
<1> QED
  BY <1>2, <1>4, <1>5, <1>6, <1>7, <1>8 DEF FundsInv

\* A failed hold retains the authority of its process.
LEMMA MarkFailsStep ==
    ASSUME FundsInv, NEW p \in Processes, MarkFails(p)
    PROVE  FundsInv' /\ NotMisled
<1>1. Moved(p, "unwitness", Lease(p), TRUE, proc[p].latched, proc[p].warned)
  BY RetainedEffect DEF MarkFails, FundsInv
<1>2. FundsTypeOK'
  BY <1>1 DEF MarkFails, Moved, files, database, bounds, FundsInv, FundsTypeOK
<1>3. SameLeases
 BY <1>1 DEF MarkFails, Moved, files, database, bounds, FundsInv, FundsTypeOK, History,
     SameLeases, Lease, At
<1>4. LeaseInv' /\ LockInv' /\ DiedInv'
  BY <1>3, LeasesKept DEF FundsInv
<1>5. StepInv'
  BY <1>1 DEF MarkFails, Moved, files, bounds, FundsInv, StepInv, At
<1>6. HoldInv'
 BY <1>1 DEF MarkFails, Moved, files, database, bounds, FundsInv, HoldInv, RowKeeps,
     SingleFault, Lease
<1>7. ViewInv'
  <2>1. SingleFault' /\ ~history'.shadowed => SingleFault /\ ~history.shadowed
    BY DEF MarkFails, bounds, FundsInv, FundsTypeOK, History, SingleFault
  <2> QED
    BY <1>1, <2>1, ViewsKept DEF MarkFails, Moved, files, database, bounds, FundsInv
<1>8. NotMisled
  BY <1>1 DEF Moved, NotMisled
<1> QED
  BY <1>2, <1>4, <1>5, <1>6, <1>7, <1>8 DEF FundsInv

\* The witness is gone for good.
LEMMA RemoveWitnessStep ==
    ASSUME FundsInv, NEW p \in Processes, RemoveWitness(p)
    PROVE  FundsInv' /\ NotMisled
<1>1. Moved(p, "sentinel", Lease(p), proc[p].retained, proc[p].latched, proc[p].warned)
  BY GotoEffect DEF RemoveWitness, Places, FundsInv
<1>2. FundsTypeOK'
  BY <1>1 DEF RemoveWitness, Moved, files, database, bounds, FundsInv, FundsTypeOK
<1>3. SameLeases
 BY <1>1 DEF RemoveWitness, Moved, files, database, bounds, FundsInv, FundsTypeOK, History,
     SameLeases, Lease, At
<1>4. LeaseInv' /\ LockInv' /\ DiedInv'
  BY <1>3, LeasesKept DEF FundsInv
<1>5. StepInv'
  BY <1>1 DEF RemoveWitness, Moved, files, bounds, FundsInv, StepInv, At
<1>6. HoldInv'
 BY <1>1 DEF RemoveWitness, Moved, files, database, bounds, FundsInv, HoldInv, RowKeeps,
     SingleFault, Lease
<1>7. ViewInv'
  <2>1. SingleFault' /\ ~history'.shadowed => SingleFault /\ ~history.shadowed
    BY DEF RemoveWitness, bounds, FundsInv, FundsTypeOK, History, SingleFault
  <2> QED
    BY <1>1, <2>1, ViewsKept DEF RemoveWitness, Moved, files, database, bounds, FundsInv
<1>8. NotMisled
  BY <1>1 DEF Moved, NotMisled
<1> QED
  BY <1>2, <1>4, <1>5, <1>6, <1>7, <1>8 DEF FundsInv

\* A witness that cannot be removed leaves only the row.
LEMMA WitnessStaysStep ==
    ASSUME FundsInv, NEW p \in Processes, WitnessStays(p)
    PROVE  FundsInv' /\ NotMisled
<1>1. Moved(p, "last resort", Lease(p), proc[p].retained, proc[p].latched, proc[p].warned)
  BY GotoEffect DEF WitnessStays, Places, FundsInv
<1>2. FundsTypeOK'
  BY <1>1 DEF WitnessStays, Moved, files, database, bounds, FundsInv, FundsTypeOK, Faults
<1>3. SameLeases
 BY <1>1 DEF WitnessStays, Moved, files, database, bounds, FundsInv, FundsTypeOK, History,
     SameLeases, Lease, At
<1>4. LeaseInv' /\ LockInv' /\ DiedInv'
  BY <1>3, LeasesKept DEF FundsInv
<1>5. StepInv'
  BY <1>1 DEF WitnessStays, Moved, files, bounds, FundsInv, StepInv, At
<1>6. HoldInv'
 BY <1>1 DEF WitnessStays, Moved, files, database, bounds, FundsInv, HoldInv, RowKeeps,
     SingleFault, Lease
<1>7. ViewInv'
  <2>1. SingleFault' /\ ~history'.shadowed => SingleFault /\ ~history.shadowed
    BY DEF WitnessStays, bounds, FundsInv, FundsTypeOK, History, SingleFault
  <2> QED
    BY <1>1, <2>1, ViewsKept DEF WitnessStays, Moved, files, database, bounds, FundsInv
<1>8. NotMisled
  BY <1>1 DEF Moved, NotMisled
<1> QED
  BY <1>2, <1>4, <1>5, <1>6, <1>7, <1>8 DEF FundsInv

\* The row stands, unless it is the lease of another process.
LEMMA InsertSentinelStep ==
    ASSUME FundsInv, NEW p \in Processes, InsertSentinel(p)
    PROVE  FundsInv' /\ NotMisled
<1>1. \/ Moved(p, "closed", 0, FALSE, FALSE, FALSE) /\ proc'[p] = Closed
      \/ Moved(p, "open", Lease(p), proc[p].retained, proc[p].latched, FALSE)
  BY ThrowEffect DEF InsertSentinel, FundsInv
<1>2. /\ history' \in History /\ history'.reported = TRUE /\ history'.died = history.died
      /\ history'.shadowed <=> history.shadowed \/ (row # 0 /\ \E q \in Processes \ {p} : Lease(q) = row)
  BY DEF InsertSentinel, FundsInv, FundsTypeOK, History
<1>3. row' = IF row = 0 THEN Unowned ELSE row
  BY DEF InsertSentinel
<1>4. /\ \A q \in Processes \ {p} : proc'[q] = proc[q]
      /\ proc'[p].place \in {"closed", "open"} /\ Lease(p)' \in {0, Lease(p)}
      /\ At(p, "closed")' => Lease(p)' = 0
      /\ Lease(p)' # 0 => proc'[p].retained = proc[p].retained
  BY <1>1 DEF Moved, Lease, At, Closed
<1>5. FundsTypeOK'
  <2>1. row' \in 0..Unowned
    BY <1>3, FundsAssumption DEF FundsInv, FundsTypeOK, Unowned
  <2> QED
    BY <1>1, <1>2, <2>1 DEF InsertSentinel, Moved, files, bounds, FundsInv, FundsTypeOK
<1>6. LeaseInv'
  <2>1. \A q \in Processes : Lease(q) < Unowned /\ Lease(q) \in Nat
    BY FundsAssumption DEF FundsInv, FundsTypeOK, States, Lease, Unowned
  <2>2. epochs' = epochs /\ (proc[p].place # "releasing")
    BY DEF InsertSentinel, bounds
  <2>3. \A q \in Processes : Holder(q)' => Holder(q) /\ Lease(q)' = Lease(q)
    BY <1>4, <2>2 DEF Holder, Lease, At
  <2>4. \A q \in Processes : Holder(q)' => row' = Lease(q)'
    BY <1>3, <2>3 DEF FundsInv, LeaseInv, Holder
  <2>5. \A q \in Processes : At(q, "releasing")' => At(q, "releasing") /\ Lease(q)' = Lease(q)
    BY <1>4 DEF Lease, At
  <2>6. \A q \in Processes : At(q, "releasing")' => Lease(q)' # 0 /\ row' # Lease(q)'
    BY <1>3, <2>1, <2>5 DEF FundsInv, LeaseInv
  <2>7. \A q \in Processes : /\ Lease(q)' \in {0, Lease(q)}
                             /\ proc'[q].place \in {"closed", "locked", "withdrawing"} => Lease(q)' = 0
    BY <1>4 DEF FundsInv, LeaseInv, Lease, At
  <2>8. \A q \in Processes : Lease(q)' <= epochs'
    BY <2>2, <2>7 DEF FundsInv, LeaseInv, FundsTypeOK
  <2>9. \A q, r \in Processes : Lease(q)' # 0 /\ Lease(q)' = Lease(r)' => q = r
    BY <2>7 DEF FundsInv, LeaseInv
  <2>10. row' <= epochs' \/ row' = Unowned
    BY <1>3, <2>2 DEF FundsInv, LeaseInv
  <2> QED
    BY <2>4, <2>6, <2>7, <2>8, <2>9, <2>10 DEF LeaseInv, Unowned
<1>7. LockInv'
  <2>1. \A q \in Processes : InLock(q)' => InLock(q)
    BY <1>4 DEF InLock, Lease
  <2> QED
    BY <2>1, LockKept DEF InsertSentinel, files, bounds, FundsInv
<1>8. DiedInv'
  <2>1. \A q \in Processes : InLock(q)' => InLock(q)
    BY <1>4 DEF InLock, Lease
  <2>2. \A q \in Processes : Lease(q)' \in {0, Lease(q)}
    BY <1>4 DEF Lease
  <2>3. CASE row # 0
    BY <1>2, <1>3, <2>1, <2>2, <2>3, DiedKept DEF InsertSentinel, files, bounds, FundsInv
  <2>4. CASE row = 0
    <3>1. history.died => "backup restored" \in faults
      BY <2>4 DEF FundsInv, DiedInv
    <3> QED
      BY <1>2, <2>1, <3>1 DEF InsertSentinel, files, bounds, FundsInv, DiedInv
  <2> QED
    BY <2>3, <2>4
<1>9. StepInv'
  <2>1. witness' = witness /\ marker' = marker /\ faults' = faults
    BY DEF InsertSentinel, files, bounds
  <2>2. /\ proc'[p].place \in {"closed", "open"} /\ proc'[p].warned = FALSE
        /\ At(p, "closed")' => proc'[p] = Closed
    BY <1>1 DEF Moved, At
  <2> QED
    BY <1>2, <1>4, <2>1, <2>2 DEF FundsInv, StepInv, At
<1>10. HoldInv'
  <2>1. CASE At(p, "sentinel")
    BY <2>1 DEF InsertSentinel, files, FundsInv, StepInv, HoldInv
  <2>2. CASE At(p, "last resort")
    <3>1. "witness kept" \in faults' /\ proc[p].retained
      BY <2>2 DEF InsertSentinel, bounds, FundsInv, StepInv, At
    <3>2. ASSUME ~history'.shadowed
          PROVE  RowKeeps'
      <4>1. CASE row = 0
        <5>1. \A q \in Processes : Lease(q)' \in 0..MaxEpochs
          BY <1>5 DEF FundsTypeOK, States, Lease
        <5> QED
          BY <1>3, <4>1, <5>1, FundsAssumption DEF RowKeeps, Unowned
      <4>2. CASE row # 0
        <5>1. row' = row /\ \A q \in Processes \ {p} : Lease(q)' # row
          BY <1>2, <1>3, <1>4, <3>2, <4>2 DEF Lease
        <5>2. Lease(p)' = row => proc'[p].retained
          BY <1>4, <3>1, <4>2
        <5> QED
          BY <4>2, <5>1, <5>2 DEF RowKeeps
      <4> QED
        BY <4>1, <4>2
    <3> QED
      BY <3>1, <3>2 DEF HoldInv
  <2> QED
    BY <2>1, <2>2 DEF InsertSentinel, At
<1>11. ViewInv'
  <2>1. SingleFault' /\ ~history'.shadowed => SingleFault /\ ~history.shadowed
    BY DEF InsertSentinel, bounds, FundsInv, FundsTypeOK, History, SingleFault
  <2> QED
    BY <1>1, <2>1, ViewsKept DEF InsertSentinel, Moved, files, database, bounds, FundsInv
<1>12. NotMisled
  BY <1>1 DEF Moved, NotMisled
<1> QED
  BY <1>5, <1>6, <1>7, <1>8, <1>9, <1>10, <1>11, <1>12 DEF FundsInv

\* Without the row, only a removed witness is reported.
LEMMA SentinelFailsStep ==
    ASSUME FundsInv, NEW p \in Processes, SentinelFails(p)
    PROVE  FundsInv' /\ NotMisled
<1>1. \/ Moved(p, "closed", 0, FALSE, FALSE, FALSE) /\ proc'[p] = Closed
      \/ Moved(p, "open", Lease(p), proc[p].retained, proc[p].latched, FALSE)
  BY ThrowEffect DEF SentinelFails, FundsInv
<1>2. /\ history' \in History /\ history'.died = history.died /\ history'.shadowed = history.shadowed
      /\ history'.reported <=> history.reported \/ At(p, "sentinel")
  BY DEF SentinelFails, FundsInv, FundsTypeOK, History
<1>3. /\ \A q \in Processes \ {p} : proc'[q] = proc[q]
      /\ proc'[p].place \in {"closed", "open"} /\ Lease(p)' \in {0, Lease(p)}
      /\ At(p, "closed")' => Lease(p)' = 0
      /\ Lease(p)' # 0 => proc'[p].retained = proc[p].retained
  BY <1>1 DEF Moved, Lease, At, Closed
<1>4. FundsTypeOK'
  BY <1>1, <1>2 DEF SentinelFails, Moved, files, database, FundsInv, FundsTypeOK, Faults
<1>5. LeaseInv'
  <2>1. row' = row /\ epochs' = epochs /\ proc[p].place # "releasing"
    BY DEF SentinelFails, database
  <2> QED
    BY <1>3, <2>1 DEF FundsInv, FundsTypeOK, LeaseInv, Holder, Lease, At, Unowned
<1>6. LockInv'
  <2>1. \A q \in Processes : InLock(q)' => InLock(q)
    BY <1>3 DEF InLock, Lease
  <2> QED
    BY <2>1, LockKept DEF SentinelFails, files, bounds, FundsInv
<1>7. DiedInv'
  <2>1. \A q \in Processes : InLock(q)' => InLock(q)
    BY <1>3 DEF InLock, Lease
  <2>2. \A q \in Processes : Lease(q)' \in {0, Lease(q)}
    BY <1>3 DEF Lease
  <2> QED
    BY <1>2, <2>1, <2>2, DiedKept DEF SentinelFails, files, database, FundsInv
<1>8. StepInv'
  BY <1>1, <1>2 DEF SentinelFails, Moved, files, bounds, FundsInv, StepInv, At
<1>9. HoldInv'
 BY <1>1, <1>2, <1>3 DEF SentinelFails, Moved, files, database, bounds, FundsInv, HoldInv,
     RowKeeps, SingleFault, Lease, StepInv, At
<1>10. ViewInv'
  <2>1. SingleFault' /\ ~history'.shadowed => SingleFault /\ ~history.shadowed
    BY DEF SentinelFails, bounds, FundsInv, FundsTypeOK, History, SingleFault
  <2> QED
    BY <1>1, <2>1, ViewsKept DEF SentinelFails, Moved, files, database, bounds, FundsInv
<1>11. NotMisled
  BY <1>1 DEF Moved, NotMisled
<1> QED
  BY <1>4, <1>5, <1>6, <1>7, <1>8, <1>9, <1>10, <1>11 DEF FundsInv

\* The incident is written behind a marker.
LEMMA RecordIncidentStep ==
    ASSUME FundsInv, NEW p \in Processes, RecordIncident(p)
    PROVE  FundsInv' /\ NotMisled
<1>1. Moved(p, "open", Lease(p), proc[p].retained, proc[p].latched, FALSE)
  BY IdleEffect DEF RecordIncident, FundsInv
<1>2. FundsTypeOK'
  BY <1>1 DEF RecordIncident, Moved, files, database, bounds, FundsInv, FundsTypeOK
<1>3. SameLeases
 BY <1>1 DEF RecordIncident, Moved, files, database, bounds, FundsInv, FundsTypeOK, History,
     SameLeases, Lease, At
<1>4. LeaseInv' /\ LockInv' /\ DiedInv'
  BY <1>3, LeasesKept DEF FundsInv
<1>5. StepInv'
  BY <1>1 DEF RecordIncident, Moved, files, bounds, FundsInv, StepInv, At
<1>6. HoldInv'
 BY <1>1 DEF RecordIncident, Moved, files, database, bounds, FundsInv, HoldInv, RowKeeps,
     SingleFault, Lease
<1>7. incident => incident'
  <2>1. incident' = TRUE \/ incident' = incident
    BY DEF RecordIncident
  <2> QED
    BY <2>1
<1>8. ViewInv'
  <2>1. SingleFault' /\ ~history'.shadowed => SingleFault /\ ~history.shadowed
    BY DEF RecordIncident, bounds, SingleFault
  <2>2. Unlocked
    BY DEF RecordIncident
  <2> QED
    BY <1>1, <1>7, <2>1, <2>2, ViewsKept DEF Moved, FundsInv
<1>9. NotMisled
  BY <1>1 DEF Moved, NotMisled
<1> QED
  BY <1>2, <1>4, <1>5, <1>6, <1>8, <1>9 DEF FundsInv

\* A process reads the database once.
LEMMA ObserveStep ==
    ASSUME FundsInv, NEW p \in Processes, Observe(p)
    PROVE  FundsInv' /\ NotMisled
<1>1. /\ Moved(p, "reading", Lease(p), proc[p].retained, proc[p].latched, proc[p].warned)
      /\ proc'[p].view = View
  BY ViewEffect DEF Observe, FundsInv
<1>2. FundsTypeOK'
  BY <1>1 DEF Observe, Moved, files, database, bounds, FundsInv, FundsTypeOK
<1>3. SameLeases
 BY <1>1 DEF Observe, Moved, files, database, bounds, FundsInv, FundsTypeOK, History,
     SameLeases, Lease, At
<1>4. LeaseInv' /\ LockInv' /\ DiedInv'
  BY <1>3, LeasesKept DEF FundsInv
<1>5. StepInv'
  BY <1>1 DEF Observe, Moved, files, bounds, FundsInv, StepInv, At
<1>6. HoldInv'
 BY <1>1 DEF Observe, Moved, files, database, bounds, FundsInv, HoldInv, RowKeeps, SingleFault,
     Lease
<1>7. ViewInv'
  <2>1. /\ View' = View /\ proc'[p].place = "reading" /\ proc'[p].view.incident = incident
        /\ incident' = incident /\ SingleFault' = SingleFault /\ history' = history
    BY <1>1 DEF Observe, database, bounds, Moved, View, SingleFault, Lease
  <2>2. \A q \in Processes \ {p} : proc'[q] = proc[q]
    BY <1>1 DEF Moved
  <2> QED
    BY <2>1, <2>2 DEF FundsInv, ViewInv, At, Lease
<1>8. NotMisled
  BY <1>1 DEF Moved, NotMisled
<1> QED
  BY <1>2, <1>4, <1>5, <1>6, <1>7, <1>8 DEF FundsInv

\* What it then finds in the files is not of its making.
LEMMA EndObserveStep ==
    ASSUME FundsInv, NEW p \in Processes, EndObserve(p)
    PROVE  FundsInv' /\ NotMisled
<1> DEFINE latch == Idle(p, proc[p]).latched \/ BreakerOpen(p, proc[p].view)
<1>1. proc[p] \in States
  BY DEF FundsInv, FundsTypeOK
<1>2. latch \in BOOLEAN /\ Become(p, [Idle(p, proc[p]) EXCEPT !.latched = latch])
  BY DEF EndObserve
<1>3. latch => proc[p].latched \/ BreakerOpen(p, proc[p].view)
  BY <1>1, IdleState
<1> HIDE DEF latch
<1>4. Moved(p, "open", Lease(p), proc[p].retained, latch, FALSE)
  BY <1>2, LatchedEffect DEF FundsInv
<1>5. FundsTypeOK'
  BY <1>4 DEF EndObserve, Moved, files, database, bounds, FundsInv, FundsTypeOK
<1>6. SameLeases
 BY <1>4 DEF EndObserve, Moved, files, database, bounds, FundsInv, FundsTypeOK, History,
     SameLeases, Lease, At
<1>7. LeaseInv' /\ LockInv' /\ DiedInv'
  BY <1>6, LeasesKept DEF FundsInv
<1>8. StepInv'
  BY <1>4 DEF EndObserve, Moved, files, bounds, FundsInv, StepInv, At
<1>9. HoldInv'
 BY <1>4 DEF EndObserve, Moved, files, database, bounds, FundsInv, HoldInv, RowKeeps,
     SingleFault, Lease
<1>10. ViewInv'
  <2>1. SingleFault' /\ ~history'.shadowed => SingleFault /\ ~history.shadowed
    BY DEF EndObserve, bounds, FundsInv, FundsTypeOK, History, SingleFault
  <2> QED
    BY <1>4, <2>1, ViewsKept DEF EndObserve, Moved, files, database, bounds, FundsInv
<1>11. NotMisled
 BY <1>4, <1>3 DEF Moved, FundsInv, LockInv, InLock, ViewInv, Holder,
     EndObserve, NotMisled, BreakerOpen, Lease, At
<1> QED
  BY <1>5, <1>7, <1>8, <1>9, <1>10, <1>11 DEF FundsInv

\* The write lock excludes other writers.
LEMMA BeginStep ==
    ASSUME FundsInv, NEW p \in Processes, NEW job \in {"authorize", "transport"}, Begin(p, job)
    PROVE  FundsInv' /\ NotMisled
<1>1. /\ Moved(p, "checking", Lease(p), proc[p].retained, proc[p].latched, history.reported)
      /\ proc'[p].view = View
  BY CheckingEffect DEF Begin, FundsInv, Jobs
<1>2. FundsTypeOK'
  BY <1>1 DEF Begin, Moved, files, database, bounds, FundsInv, FundsTypeOK
<1>3. SameLeases
 BY <1>1 DEF Begin, Moved, files, database, bounds, FundsInv, FundsTypeOK, History, SameLeases,
     Lease, At
<1>4. LeaseInv' /\ LockInv' /\ DiedInv'
  BY <1>3, LeasesKept DEF FundsInv
<1>5. StepInv'
  BY <1>1 DEF Begin, Moved, files, bounds, FundsInv, StepInv, At
<1>6. HoldInv'
 BY <1>1 DEF Begin, Moved, files, database, bounds, FundsInv, HoldInv, RowKeeps, SingleFault,
     Lease
<1>7. ViewInv'
  <2>1. /\ View' = View /\ proc'[p].place = "checking" /\ proc'[p].view = View
        /\ incident' = incident /\ SingleFault' = SingleFault /\ history' = history
    BY <1>1 DEF Begin, database, bounds, Moved, View, SingleFault
  <2>2. \A q \in Processes \ {p} : proc'[q] = proc[q] /\ proc[q].place \notin {"checking", "cleared"}
    BY <1>1 DEF Moved, Begin, Unlocked
  <2> QED
    BY <2>1, <2>2 DEF FundsInv, ViewInv, At, Lease
<1>8. NotMisled
  BY <1>1 DEF Moved, NotMisled
<1> QED
  BY <1>2, <1>4, <1>5, <1>6, <1>7, <1>8 DEF FundsInv

\* A check that succeeds saw no hold that had been reported.
LEMMA CheckStep ==
    ASSUME FundsInv, NEW p \in Processes, Check(p)
    PROVE  FundsInv' /\ NotMisled
<1>1. \/ /\ Moved(p, "cleared", Lease(p), proc[p].retained, proc[p].latched, proc[p].warned)
         /\ proc'[p].view = proc[p].view /\ Authorised(p)
      \/ Moved(p, "open", Lease(p), proc[p].retained, proc[p].latched, FALSE)
  BY IdleEffect, GotoEffect DEF Check, Places, FundsInv
<1>2. FundsTypeOK'
  BY <1>1 DEF Check, Moved, files, database, bounds, FundsInv, FundsTypeOK
<1>3. SameLeases
 BY <1>1 DEF Check, Moved, files, database, bounds, FundsInv, FundsTypeOK, History, SameLeases,
     Lease, At
<1>4. LeaseInv' /\ LockInv' /\ DiedInv'
  BY <1>3, LeasesKept DEF FundsInv
<1>5. StepInv'
  BY <1>1 DEF Check, Moved, files, bounds, FundsInv, StepInv, At
<1>6. HoldInv'
 BY <1>1 DEF Check, Moved, files, database, bounds, FundsInv, HoldInv, RowKeeps, SingleFault,
     Lease
<1>7. ViewInv'
  <2>1. View' = View /\ incident' = incident /\ SingleFault' = SingleFault /\ history' = history
    BY DEF Check, database, bounds, View, SingleFault
  <2>2. \A q \in Processes \ {p} : proc'[q] = proc[q] /\ proc[q].place \notin {"checking", "cleared"}
    BY <1>1 DEF Moved, Check, FundsInv, ViewInv, At
  <2>3. proc[p].view = View
    BY DEF Check, FundsInv, ViewInv, At
  <2>4. CASE proc'[p].place = "open"
    BY <2>1, <2>2, <2>4 DEF FundsInv, ViewInv, At, Lease
  <2>5. CASE proc'[p].place # "open"
    <3>1. /\ proc'[p].place = "cleared" /\ proc'[p].view = View /\ Lease(p)' = Lease(p)
          /\ proc'[p].warned = proc[p].warned /\ Authorised(p)
      BY <1>1, <2>3, <2>5 DEF Moved, Lease
    <3>2. Lease(p) # 0 /\ row = Lease(p) /\ ~proc[p].retained
      BY <3>1 DEF Authorised, Owned
    <3>3. ~incident /\ established /\ witness /\ ~marker
      BY <2>3, <3>1 DEF Authorised, BreakerOpen, View
    <3>4. ~(proc[p].warned /\ SingleFault /\ ~history.shadowed)
      BY <3>2, <3>3 DEF FundsInv, StepInv, HoldInv, RowKeeps
    <3> QED
      BY <2>1, <2>2, <3>1, <3>2, <3>3, <3>4 DEF FundsInv, ViewInv, At, Lease
  <2> QED
    BY <2>4, <2>5
<1>8. NotMisled
  BY <1>1 DEF Moved, NotMisled
<1> QED
  BY <1>2, <1>4, <1>5, <1>6, <1>7, <1>8 DEF FundsInv

\* Nothing changed the database since the check.
LEMMA CommitStep ==
    ASSUME FundsInv, NEW p \in Processes, Commit(p)
    PROVE  FundsInv' /\ NotMisled
<1>1. Moved(p, "open", Lease(p), proc[p].retained, proc[p].latched, FALSE)
  BY IdleEffect, TicketEffect DEF Commit, FundsInv
<1>2. FundsTypeOK'
  <2>1. transports' \in Nat
    BY DEF Commit, FundsInv, FundsTypeOK
  <2> QED
    BY <1>1, <2>1 DEF Commit, Moved, files, database, bounds, FundsInv, FundsTypeOK
<1>3. SameLeases
 BY <1>1 DEF Commit, Moved, files, database, bounds, FundsInv, FundsTypeOK, History, SameLeases,
     Lease, At
<1>4. LeaseInv' /\ LockInv' /\ DiedInv'
  BY <1>3, LeasesKept DEF FundsInv
<1>5. StepInv'
  BY <1>1 DEF Commit, Moved, files, bounds, FundsInv, StepInv, At
<1>6. HoldInv'
 BY <1>1 DEF Commit, Moved, files, database, bounds, FundsInv, HoldInv, RowKeeps, SingleFault,
     Lease
<1>7. ViewInv'
  <2>1. SingleFault' /\ ~history'.shadowed => SingleFault /\ ~history.shadowed
    BY DEF Commit, bounds, FundsInv, FundsTypeOK, History, SingleFault
  <2> QED
    BY <1>1, <2>1, ViewsKept DEF Commit, Moved, files, database, bounds, FundsInv
<1>8. NotMisled
  BY <1>1 DEF Moved, NotMisled
<1> QED
  BY <1>2, <1>4, <1>5, <1>6, <1>7, <1>8 DEF FundsInv

\* Once the lock file is lost nothing is claimed of it.
LEMMA LoseLockStep ==
    ASSUME FundsInv, LoseLock
    PROVE  FundsInv' /\ NotMisled
<1>1. /\ faults' = faults \cup {"lock lost"} /\ proc' = proc /\ row' = row /\ incident' = incident
      /\ established' = established /\ marker' = marker /\ witness' = witness
      /\ epochs' = epochs /\ history' = history
  BY DEF LoseLock, database
<1>2. FundsTypeOK'
  BY <1>1 DEF LoseLock, FundsInv, FundsTypeOK, Faults
<1>3. LeaseInv'
  BY <1>1 DEF FundsInv, LeaseInv, Holder, Lease, At, Unowned
<1>4. LockInv'
  BY <1>1 DEF LockInv
<1>5. DiedInv'
  BY <1>1 DEF FundsInv, DiedInv, Lease
<1>6. StepInv'
  BY <1>1 DEF FundsInv, StepInv, At
<1>7. SingleFault' => SingleFault
  BY <1>1 DEF SingleFault
<1>8. HoldInv'
  BY <1>1, <1>7 DEF FundsInv, HoldInv, RowKeeps, Lease
<1>9. ViewInv'
  BY <1>1, <1>7 DEF FundsInv, ViewInv, View, At, Lease
<1>10. NotMisled
  BY <1>1 DEF Moved, NotMisled
<1> QED
  BY <1>2, <1>3, <1>4, <1>5, <1>6, <1>8, <1>9, <1>10 DEF FundsInv

\* An old database is put in place while no process is there.
LEMMA RestoreBackupStep ==
    ASSUME FundsInv, RestoreBackup
    PROVE  FundsInv' /\ NotMisled
<1>1. /\ established' = established /\ marker' = marker /\ witness' = witness /\ lock' = lock
      /\ proc' = proc /\ epochs' = epochs /\ history' = history
  BY DEF RestoreBackup, files
<1>2. row' = 0
  BY DEF RestoreBackup
<1>3. incident' = FALSE
  BY DEF RestoreBackup
<1>4. faults' = faults \cup {"backup restored"}
  BY DEF RestoreBackup
<1>5. \A q \in Processes : proc'[q] = Closed
  BY <1>1 DEF RestoreBackup, FundsInv, StepInv
<1>6. /\ Closed.place = "closed" /\ Closed.lease = 0 /\ Closed.latched = FALSE
      /\ Closed.warned = FALSE
  BY DEF Closed
<1>7. FundsTypeOK'
  <2>1. row' \in 0..Unowned
    BY <1>2, FundsAssumption DEF Unowned
  <2> QED
    BY <1>1, <1>3, <1>4, <2>1 DEF RestoreBackup, FundsInv, FundsTypeOK, Faults
<1>8. LeaseInv'
  <2>1. epochs' \in Nat
    BY <1>7 DEF FundsTypeOK
  <2> QED
    BY <1>2, <1>5, <1>6, <2>1 DEF LeaseInv, Holder, Lease, At
<1>9. LockInv'
  BY <1>5, <1>6 DEF LockInv, InLock, Lease
<1>10. DiedInv'
  BY <1>1, <1>4 DEF FundsInv, DiedInv, InLock, Lease
<1>11. StepInv'
  BY <1>5, <1>6 DEF StepInv, At
<1>12. SingleFault' => SingleFault /\ "witness kept" \notin faults
  <2>1. "backup restored" \in faults' /\ \A f \in faults : f \in faults'
    BY <1>4
  <2>2. "witness kept" # "backup restored"
    OBVIOUS
  <2> QED
    BY <2>1, <2>2 DEF SingleFault
<1>13. HoldInv'
  BY <1>1, <1>12 DEF FundsInv, HoldInv
<1>14. ViewInv'
  BY <1>5, <1>6 DEF ViewInv, At
<1>15. NotMisled
  BY <1>5, <1>6 DEF NotMisled
<1> QED
  BY <1>7, <1>8, <1>9, <1>10, <1>11, <1>13, <1>14, <1>15 DEF FundsInv

\* Nobody has opened the database yet.
LEMMA FundsInit == Init => FundsInv
<1> SUFFICES ASSUME Init PROVE FundsInv
  OBVIOUS
<1>1. \A q \in Processes : proc[q] = Closed
  BY DEF Init
<1>2. \A q \in Processes : /\ proc[q].place = "closed" /\ proc[q].lease = 0
                           /\ proc[q].latched = FALSE /\ proc[q].warned = FALSE
  BY <1>1 DEF Closed
<1>3. history.reported = FALSE /\ history.died = FALSE
  BY DEF Init
<1>4. FundsTypeOK
  <2>1. row \in 0..Unowned /\ epochs \in 0..MaxEpochs
    BY FundsAssumption DEF Init, Unowned
  <2> QED
    BY <2>1, ClosedState DEF Init, FundsTypeOK, History
<1>5. LeaseInv
  BY <1>2 DEF Init, LeaseInv, Holder, Lease, At
<1>6. LockInv /\ DiedInv /\ HoldInv
  BY <1>2, <1>3 DEF LockInv, DiedInv, HoldInv, InLock, Lease
<1>7. StepInv /\ ViewInv
  BY <1>1, <1>2 DEF StepInv, ViewInv, At
<1> QED
  BY <1>4, <1>5, <1>6, <1>7 DEF FundsInv

\* Every step of every process, and every fault, keeps the invariant.
LEMMA FundsNext == FundsInv /\ [Next]_vars => FundsInv' /\ NotMisled
<1> SUFFICES ASSUME FundsInv, [Next]_vars PROVE FundsInv' /\ NotMisled
  OBVIOUS
<1>1. ASSUME NEW p \in Processes, Lifetime(p)
      PROVE  FundsInv' /\ NotMisled
  BY <1>1, OpenStep, CloseStep, CrashStep DEF Lifetime
<1>2. ASSUME NEW p \in Processes, Leasing(p)
      PROVE  FundsInv' /\ NotMisled
  BY <1>2, BeginAcquireStep, TakeRowStep, AcquireFailsStep, WithdrawStep, BeginReleaseStep,
     EndReleaseStep, ReleaseFailsStep DEF Leasing
<1>3. ASSUME NEW p \in Processes, Holding(p)
      PROVE  FundsInv' /\ NotMisled
  BY <1>3, HoldStep, MarkStep, MarkFailsStep, RemoveWitnessStep, WitnessStaysStep,
     InsertSentinelStep, SentinelFailsStep, RecordIncidentStep DEF Holding
<1>4. ASSUME NEW p \in Processes, Releasing(p)
      PROVE  FundsInv' /\ NotMisled
  BY <1>4, ObserveStep, EndObserveStep, BeginStep, CheckStep, CommitStep DEF Releasing
<1>5. ASSUME UNCHANGED vars
      PROVE  FundsInv' /\ NotMisled
  <2> USE <1>5 DEF vars, files, database, bounds
  <2>1. FundsTypeOK'
    BY DEF FundsInv, FundsTypeOK
  <2>2. SameLeases
    BY DEF SameLeases
  <2>3. LeaseInv' /\ LockInv' /\ DiedInv'
    BY <2>2, LeasesKept DEF FundsInv
  <2>4. StepInv' /\ NotMisled
    BY DEF FundsInv, StepInv, NotMisled, At
  <2>5. HoldInv'
    BY DEF FundsInv, HoldInv, RowKeeps, SingleFault, Lease
  <2>6. ViewInv'
    BY DEF FundsInv, ViewInv, View, SingleFault, At, Lease
  <2> QED
    BY <2>1, <2>3, <2>4, <2>5, <2>6 DEF FundsInv
<1> QED
  BY <1>1, <1>2, <1>3, <1>4, <1>5, LoseLockStep, RestoreBackupStep DEF Next

\* The invariant holds in every reachable state.
THEOREM FundsInvariant == Spec => []FundsInv
<1> QED
  BY FundsInit, FundsNext, PTL DEF Spec

-----------------------------------------------------------------------------
(* What follows from the invariant. *)

\* Of any number of processes that open the database at most one acts under a
\* lease, whose row is its own (acquire and release of the funds lease).
THEOREM OneHolderAlways == Spec => []OneHolder
<1>1. FundsInv => OneHolder
  BY DEF FundsInv, LeaseInv, OneHolder, Holder
<1> QED
  BY <1>1, FundsInvariant, PTL

\* A lease whose process ended without releasing it is never taken over, unless
\* both the lock file and the row are lost.
THEOREM LeaseNeverInherited == Spec => []LeaseNotInherited
<1>1. FundsInv => LeaseNotInherited
  BY DEF FundsInv, LeaseInv, DiedInv, LeaseNotInherited, Holder, InLock
<1> QED
  BY <1>1, FundsInvariant, PTL

\* A hold that was reported keeps standing in the way although its marker could not
\* be written and one medium failed.
THEOREM HoldAlwaysKept == Spec => []HoldKept
<1>1. FundsInv => HoldKept
  BY DEF FundsInv, LeaseInv, HoldInv, RowKeeps, HoldKept, DurablyHeld, Holder
<1> QED
  BY <1>1, FundsInvariant, PTL

\* Under its lease a process latches the breaker only for what stands in the files
\* and the database (isFundsReleaseHeld reads them one after the other).
THEOREM HolderNeverMisled == Spec => HolderNotMisled
<1>1. FundsInv /\ [Next]_vars =>
        [\A p \in Processes :
            Holder(p) /\ ~proc[p].latched /\ proc'[p].latched =>
                \/ ~established \/ marker \/ ~witness \/ incident
                \/ proc[p].retained \/ "lock lost" \in faults]_vars
  BY FundsNext DEF NotMisled
<1> QED
  BY <1>1, FundsInvariant, PTL DEF Spec, HolderNotMisled

\* A transport starts only under the lease of the database, without incident and
\* without a hold that was reported before its check began.
THEOREM TransportsAuthorised == Spec => TransportAuthorised
<1>1. ASSUME FundsInv, NEW p \in Processes, At(p, "cleared")
      PROVE  /\ OneHolder /\ Holder(p)
             /\ ~(proc[p].warned /\ SingleFault /\ ~history.shadowed)
             /\ ~incident
  <2>1. OneHolder
    BY <1>1 DEF FundsInv, LeaseInv, OneHolder, Holder
  <2> QED
    BY <1>1, <2>1 DEF FundsInv, ViewInv, Holder, At
<1>2. FundsInv /\ [Next]_vars =>
        [\A p \in Processes :
          (transports' # transports /\ At(p, "cleared") /\ ~At(p, "cleared")') =>
              /\ OneHolder /\ Holder(p)
              /\ ~(proc[p].warned /\ SingleFault /\ ~history.shadowed)
              /\ ~incident]_vars
  BY <1>1
<1> QED
  BY <1>2, FundsInvariant, PTL DEF Spec, TransportAuthorised
=============================================================================

--------------------------- MODULE HousingProofs ---------------------------
(***************************************************************************)
(* Proofs about Housing, for clients that name any family they like: an    *)
(* option gets into a group of another family only by an update that named *)
(* that family, and whoever changes an option writes for its family or for *)
(* that of its group, whatever requests overlap.  Neither follows from the *)
(* statement that writes alone: a handler about to write must know that    *)
(* what it checked earlier still holds, which it does because rows, once   *)
(* born, keep their family.                                                *)
(***************************************************************************)
EXTENDS Housing, TLAPS

\* What a handler relies on, by the statement it is at, in tables os and gs.
Reliable(q, os, gs) ==
    /\ q.pc # "idle" /\ q.kind = "create" => q.fam \in WriterOf[q.user]
    /\ q.pc = "write" /\ q.kind \in {"create", "update"} /\ q.group # None =>
          /\ q.group \in Groups
          /\ gs[q.group].status # "unborn" /\ gs[q.group].fam = q.fam
    /\ q.pc = "write" /\ q.kind \in {"bulk", "drop"} =>
          gs[q.group].status # "unborn" /\ gs[q.group].fam \in WriterOf[q.user]

AllReliable == \A r \in Reqs : Reliable(reqs[r], options, groups)

\* ON DELETE SET NULL: the group of a live option is there.
GroupsExist == \A o \in Options :
    Live(o) /\ options[o].group # None => GroupLive(options[o].group)

IInv == TypeOK /\ GroupsExist /\ AllReliable

AnyReq == {IdleReq} \cup CreateReq \cup UpdateReq \cup AssignReq \cup BulkReq \cup DropReq

\* Rows keep their family and are never unborn again.
Permanent(os, gs, os2, gs2) ==
    /\ \A o \in Options : os[o].status # "unborn" =>
          os2[o].status # "unborn" /\ os2[o].fam = os[o].fam
    /\ \A g \in Groups : gs[g].status # "unborn" =>
          gs2[g].status # "unborn" /\ gs2[g].fam = gs[g].fam

USE DEF Option, Group, Status

\* The kind of a handler that is not idle says which fields it has.
LEMMA ReqKinds ==
    ASSUME NEW q \in AnyReq, q.pc # "idle"
    PROVE  /\ q.kind \in {"create", "update", "assign", "bulk", "drop"}
           /\ q.kind = "create" => q \in CreateReq
           /\ q.kind = "update" => q \in UpdateReq
           /\ q.kind = "assign" => q \in AssignReq
           /\ q.kind = "bulk" => q \in BulkReq
           /\ q.kind = "drop" => q \in DropReq
BY DEF AnyReq, IdleReq, CreateReq, UpdateReq, AssignReq, BulkReq, DropReq

\* What a handler relies on outlives every write of the others.
LEMMA ReliableStable ==
    ASSUME NEW q \in AnyReq, NEW os, NEW gs, NEW os2, NEW gs2,
           Permanent(os, gs, os2, gs2), Reliable(q, os, gs)
    PROVE  Reliable(q, os2, gs2)
<1>2. ASSUME q.pc = "write", q.kind \in {"create", "update"}, q.group # None
      PROVE  /\ q.group \in Groups
             /\ gs2[q.group].status # "unborn" /\ gs2[q.group].fam = q.fam
  BY <1>2 DEF Reliable, Permanent
<1>3. ASSUME q.pc = "write", q.kind \in {"bulk", "drop"}
      PROVE  gs2[q.group].status # "unborn" /\ gs2[q.group].fam \in WriterOf[q.user]
  <2>1. q.group \in Groups
    BY <1>3, ReqKinds DEF BulkReq, DropReq
  <2> QED BY <1>3, <2>1 DEF Reliable, Permanent
<1> QED BY <1>2, <1>3 DEF Reliable

\* A handler that returns relies on nothing.
LEMMA IdleReliable ==
    ASSUME NEW os, NEW gs
    PROVE  Reliable(IdleReq, os, gs)
BY DEF Reliable, IdleReq

\* One handler moves, the tables at most grow or change within families.
LEMMA HandlerStep ==
    ASSUME TypeOK, AllReliable, NEW r \in Reqs, NEW q \in AnyReq,
           reqs' = [reqs EXCEPT ![r] = q],
           Permanent(options, groups, options', groups'),
           Reliable(q, options', groups')
    PROVE  AllReliable'
<1> SUFFICES ASSUME NEW s \in Reqs
             PROVE  Reliable(reqs'[s], options', groups')
  BY DEF AllReliable
<1>1. reqs \in [Reqs -> AnyReq]
  BY DEF TypeOK, AnyReq
<1>2. CASE s = r
  BY <1>1, <1>2
<1>3. CASE s # r
  <2>1. reqs'[s] = reqs[s] /\ reqs[s] \in AnyReq
    BY <1>1, <1>3
  <2>2. Reliable(reqs[s], options, groups)
    BY DEF AllReliable
  <2> QED BY <2>1, <2>2, ReliableStable
<1> QED BY <1>2, <1>3

\* No handler moves.
LEMMA TableStep ==
    ASSUME TypeOK, AllReliable, reqs' = reqs,
           Permanent(options, groups, options', groups')
    PROVE  AllReliable'
<1> SUFFICES ASSUME NEW s \in Reqs
             PROVE  Reliable(reqs'[s], options', groups')
  BY DEF AllReliable
<1>1. reqs[s] \in AnyReq
  BY DEF TypeOK, AnyReq
<1> QED BY <1>1, ReliableStable DEF AllReliable

\* The optional fields of an update have been filled in once it is checked.
FilledIn(q) ==
    /\ q.pc = "read" => q.kind = "update"
    /\ q.pc \in {"check", "write"} /\ q.kind = "update" =>
          q.group # Unset /\ q.visible # Unset

TablesOK ==
    /\ options \in [Options -> Option]
    /\ groups \in [Groups -> Group]
    /\ actor \in Users \cup {None}

\* The frame of every action of a handler: it is enough to look at the
\* handler that moves and at the tables.
LEMMA HandlerInv ==
    ASSUME IInv, NEW r \in Reqs, NEW q \in AnyReq, FilledIn(q),
           reqs' = [reqs EXCEPT ![r] = q],
           TablesOK', GroupsExist',
           Permanent(options, groups, options', groups'),
           Reliable(q, options', groups')
    PROVE  IInv'
<1>1. AllReliable'
  BY HandlerStep DEF IInv
<1>2. TypeOK'
  <2>1. reqs \in [Reqs -> AnyReq] /\ \A s \in Reqs : FilledIn(reqs[s])
    BY DEF IInv, TypeOK, AnyReq, FilledIn
  <2>2. reqs' \in [Reqs -> AnyReq]
    BY <2>1
  <2>3. \A s \in Reqs : FilledIn(reqs'[s])
    BY <2>1
  <2> QED BY <2>2, <2>3 DEF TypeOK, TablesOK, AnyReq, FilledIn
<1> QED BY <1>1, <1>2 DEF IInv

\* A handler that leaves the tables alone.
LEMMA QuietInv ==
    ASSUME IInv, NEW r \in Reqs, NEW q \in AnyReq, FilledIn(q),
           reqs' = [reqs EXCEPT ![r] = q],
           UNCHANGED <<options, groups, actor>>,
           Reliable(q, options, groups)
    PROVE  IInv'
<1>1. TablesOK' /\ GroupsExist'
  BY DEF IInv, TypeOK, TablesOK, GroupsExist, Live, GroupLive
<1>2. Permanent(options, groups, options', groups')
  BY DEF Permanent
<1> QED BY <1>1, <1>2, HandlerInv

\* A handler that returns.
LEMMA ReturnInv ==
    ASSUME IInv, NEW r \in Reqs, Return(r),
           TablesOK', GroupsExist',
           Permanent(options, groups, options', groups')
    PROVE  IInv'
<1>1. IdleReq \in AnyReq /\ FilledIn(IdleReq)
  BY DEF AnyReq, IdleReq, FilledIn
<1> QED BY <1>1, IdleReliable, HandlerInv DEF Return

\* A handler that returns without writing.
LEMMA QuietReturnInv ==
    ASSUME IInv, NEW r \in Reqs, Return(r), UNCHANGED <<options, groups, actor>>
    PROVE  IInv'
<1>1. IdleReq \in AnyReq /\ FilledIn(IdleReq)
  BY DEF AnyReq, IdleReq, FilledIn
<1> QED BY <1>1, IdleReliable, QuietInv DEF Return

\* Empty tables and idle handlers satisfy the invariant.
LEMMA InitIInv ==
    ASSUME Init
    PROVE  IInv
<1>1. NoOption \in Option /\ NoGroup \in Group
  BY HousingAssumption DEF NoOption, NoGroup
<1>2. TypeOK
  BY <1>1 DEF Init, TypeOK, IdleReq
<1>3. GroupsExist
  BY DEF Init, GroupsExist, Live, NoOption
<1>4. AllReliable
  BY IdleReliable DEF Init, AllReliable
<1> QED BY <1>2, <1>3, <1>4 DEF IInv

\* A handler takes up a request.
LEMMA StartInv ==
    ASSUME IInv, NEW r \in Reqs,
           \/ StartCreate(r) \/ StartUpdate(r) \/ StartAssign(r)
           \/ StartBulk(r) \/ StartDropGroup(r)
    PROVE  IInv'
<1>1. CASE StartCreate(r)
  <2>1. PICK u \in Users, f \in Families, g \in Groups \cup {None}, v \in BOOLEAN, n \in Notes :
          /\ f \in WriterOf[u]
          /\ Start(r, [pc |-> "check", kind |-> "create", user |-> u, fam |-> f,
                       group |-> g, visible |-> v, notes |-> n])
    BY <1>1 DEF StartCreate
  <2> DEFINE q == [pc |-> "check", kind |-> "create", user |-> u, fam |-> f,
                   group |-> g, visible |-> v, notes |-> n]
  <2>2. q \in CreateReq
    BY DEF CreateReq
  <2>3. q \in AnyReq /\ FilledIn(q) /\ Reliable(q, options, groups)
    BY <2>1, <2>2 DEF AnyReq, FilledIn, Reliable
  <2> QED BY <2>1, <2>3, QuietInv DEF Start
<1>2. CASE StartUpdate(r)
  <2>1. PICK u \in Users, o \in Options, g \in Groups \cup {None, Unset},
             v \in BOOLEAN \cup {Unset}, f \in Families :
          Start(r, [pc |-> IF g = Unset \/ v = Unset THEN "read" ELSE "check",
                    kind |-> "update", user |-> u, opt |-> o, fam |-> f,
                    group |-> g, visible |-> v])
    BY <1>2 DEF StartUpdate
  <2> DEFINE q == [pc |-> IF g = Unset \/ v = Unset THEN "read" ELSE "check",
                   kind |-> "update", user |-> u, opt |-> o, fam |-> f,
                   group |-> g, visible |-> v]
  <2>2. q \in UpdateReq
    BY DEF UpdateReq
  <2>3. q \in AnyReq /\ FilledIn(q) /\ Reliable(q, options, groups)
    BY <2>2 DEF AnyReq, FilledIn, Reliable
  <2>4. reqs' = [reqs EXCEPT ![r] = q] /\ UNCHANGED <<options, groups, actor>>
    BY <2>1 DEF Start
  <2> HIDE DEF q
  <2> QED BY <2>3, <2>4, QuietInv
<1>3. CASE StartAssign(r)
  <2>1. PICK u \in Users, o \in Options, g \in Groups \cup {None} :
          Start(r, [pc |-> IF g = None THEN "write" ELSE "check",
                    kind |-> "assign", user |-> u, opt |-> o, group |-> g])
    BY <1>3 DEF StartAssign
  <2> DEFINE q == [pc |-> IF g = None THEN "write" ELSE "check",
                   kind |-> "assign", user |-> u, opt |-> o, group |-> g]
  <2>2. q \in AssignReq
    BY DEF AssignReq
  <2>3. q \in AnyReq /\ FilledIn(q) /\ Reliable(q, options, groups)
    BY <2>2 DEF AnyReq, FilledIn, Reliable
  <2> QED BY <2>1, <2>3, QuietInv DEF Start
<1>4. CASE StartBulk(r)
  <2>1. PICK u \in Users, g \in Groups, v \in BOOLEAN :
          Start(r, [pc |-> "check", kind |-> "bulk", user |-> u, group |-> g,
                    visible |-> v])
    BY <1>4 DEF StartBulk
  <2> DEFINE q == [pc |-> "check", kind |-> "bulk", user |-> u, group |-> g,
                   visible |-> v]
  <2>2. q \in BulkReq
    BY DEF BulkReq
  <2>3. q \in AnyReq /\ FilledIn(q) /\ Reliable(q, options, groups)
    BY <2>2 DEF AnyReq, FilledIn, Reliable
  <2> QED BY <2>1, <2>3, QuietInv DEF Start
<1>5. CASE StartDropGroup(r)
  <2>1. PICK u \in Users, g \in Groups :
          Start(r, [pc |-> "check", kind |-> "drop", user |-> u, group |-> g])
    BY <1>5 DEF StartDropGroup
  <2> DEFINE q == [pc |-> "check", kind |-> "drop", user |-> u, group |-> g]
  <2>2. q \in DropReq
    BY DEF DropReq
  <2>3. q \in AnyReq /\ FilledIn(q) /\ Reliable(q, options, groups)
    BY <2>2 DEF AnyReq, FilledIn, Reliable
  <2> QED BY <2>1, <2>3, QuietInv DEF Start
<1> QED BY <1>1, <1>2, <1>3, <1>4, <1>5

\* A read or check that goes on to the next statement of the handler.
LEMMA GotoWriteInv ==
    ASSUME IInv, NEW r \in Reqs, reqs[r].pc = "check", Goto(r, "write"),
           UNCHANGED <<options, groups, actor>>,
           reqs[r].kind \in {"create", "update"} => ValidGroup(reqs[r].group, reqs[r].fam),
           reqs[r].kind \in {"bulk", "drop"} =>
              GroupLive(reqs[r].group) /\ groups[reqs[r].group].fam \in WriterOf[reqs[r].user]
    PROVE  IInv'
<1> DEFINE p == reqs[r]
           q == [p EXCEPT !.pc = "write"]
<1>1. p \in AnyReq /\ p.pc # "idle" /\ FilledIn(p) /\ Reliable(p, options, groups)
  BY DEF IInv, TypeOK, AnyReq, FilledIn, AllReliable
<1>2. reqs' = [reqs EXCEPT ![r] = q]
  BY DEF Goto, IInv, TypeOK
<1>3. /\ p.kind \in {"create", "update", "assign", "bulk", "drop"}
      /\ p.kind = "create" => p \in CreateReq
      /\ p.kind = "update" => p \in UpdateReq
      /\ p.kind = "assign" => p \in AssignReq
      /\ p.kind = "bulk" => p \in BulkReq
      /\ p.kind = "drop" => p \in DropReq
  BY <1>1, ReqKinds
<1> HIDE DEF p
<1>4. CASE p.kind = "create"
  <2>1. q \in CreateReq
    BY <1>3, <1>4 DEF CreateReq
  <2>2. q \in AnyReq /\ FilledIn(q)
    BY <1>4, <2>1 DEF AnyReq, FilledIn, CreateReq
  <2>3. Reliable(q, options, groups)
    BY <1>1, <1>3, <1>4 DEF Reliable, CreateReq, ValidGroup, GroupLive, p
  <2> QED BY <1>2, <2>2, <2>3, QuietInv
<1>5. CASE p.kind = "update"
  <2>1. q \in UpdateReq
    BY <1>3, <1>5 DEF UpdateReq
  <2>2. q.group = p.group /\ q.visible = p.visible /\ q.opt = p.opt /\ q.fam = p.fam
        /\ q.kind = "update" /\ q.pc = "write"
    BY <1>3, <1>5 DEF UpdateReq
  <2>3. p.group # Unset /\ p.visible # Unset
    BY <1>1, <1>5 DEF FilledIn, p
  <2>4. q \in AnyReq /\ FilledIn(q)
    BY <1>5, <2>1, <2>2, <2>3 DEF AnyReq, FilledIn
  <2>5. p.group \in Groups \cup {None}
    BY <1>3, <1>5, <2>3 DEF UpdateReq
  <2>6. Reliable(q, options, groups)
    BY <1>1, <1>5, <2>2, <2>5 DEF Reliable, ValidGroup, GroupLive, p
  <2> QED BY <1>2, <2>4, <2>6, QuietInv
<1>6. CASE p.kind = "assign"
  <2>1. q \in AssignReq
    BY <1>3, <1>6 DEF AssignReq
  <2>2. q \in AnyReq /\ FilledIn(q) /\ Reliable(q, options, groups)
    BY <2>1 DEF AnyReq, FilledIn, AssignReq, Reliable
  <2> QED BY <1>2, <2>2, QuietInv
<1>7. CASE p.kind = "bulk"
  <2>1. q \in BulkReq
    BY <1>3, <1>7 DEF BulkReq
  <2>2. q \in AnyReq /\ FilledIn(q)
    BY <2>1 DEF AnyReq, FilledIn, BulkReq
  <2>3. Reliable(q, options, groups)
    BY <1>3, <1>7, <2>1 DEF Reliable, BulkReq, GroupLive, p
  <2> QED BY <1>2, <2>2, <2>3, QuietInv
<1>8. CASE p.kind = "drop"
  <2>1. q \in DropReq
    BY <1>3, <1>8 DEF DropReq
  <2>2. q \in AnyReq /\ FilledIn(q)
    BY <2>1 DEF AnyReq, FilledIn, DropReq
  <2>3. Reliable(q, options, groups)
    BY <1>3, <1>8, <2>1 DEF Reliable, DropReq, GroupLive, p
  <2> QED BY <1>2, <2>2, <2>3, QuietInv
<1> QED BY <1>3, <1>4, <1>5, <1>6, <1>7, <1>8

\* The reads that precede a write.
LEMMA CheckInv ==
    ASSUME IInv, NEW r \in Reqs,
           CheckGroup(r) \/ FindAssigned(r) \/ CheckGroupWriter(r)
    PROVE  IInv'
<1>1. CASE CheckGroup(r)
  BY <1>1, GotoWriteInv, QuietReturnInv DEF CheckGroup
<1>2. CASE FindAssigned(r)
  BY <1>2, GotoWriteInv, QuietReturnInv DEF FindAssigned
<1>3. CASE CheckGroupWriter(r)
  BY <1>3, GotoWriteInv, QuietReturnInv DEF CheckGroupWriter
<1> QED BY <1>1, <1>2, <1>3

\* GetHousingOption fills the fields an update left out.
LEMMA ReadExistingInv ==
    ASSUME IInv, NEW r \in Reqs, ReadExisting(r)
    PROVE  IInv'
<1> DEFINE p == reqs[r]
           old == options[p.opt]
           q == [p EXCEPT !.pc = "check",
                          !.group = IF @ = Unset THEN old.group ELSE @,
                          !.visible = IF @ = Unset THEN old.visible ELSE @]
<1>1. p \in UpdateReq /\ p.pc = "read" /\ p.kind = "update" /\ Reliable(p, options, groups)
  <2>1. p \in AnyReq /\ p.pc = "read" /\ p.kind = "update"
    BY DEF IInv, TypeOK, AnyReq, ReadExisting
  <2> QED BY <2>1, ReqKinds DEF IInv, AllReliable
<1>2. CASE Return(r)
  BY <1>2, QuietReturnInv DEF ReadExisting
<1>3. CASE ~Return(r)
  <2>1. reqs' = [reqs EXCEPT ![r] = q]
    BY <1>3 DEF ReadExisting, IInv, TypeOK
  <2>2. old.group \in Groups \cup {None} /\ old.visible \in BOOLEAN
    BY <1>1 DEF IInv, TypeOK, UpdateReq
  <2> HIDE DEF p
  <2>3. /\ q \in UpdateReq
        /\ q.kind = "update" /\ q.pc = "check" /\ q.opt = p.opt /\ q.fam = p.fam
        /\ q.group # Unset /\ q.visible # Unset
    BY <1>1, <2>2, HousingAssumption DEF UpdateReq
  <2>4. Reliable(q, options, groups)
    BY <1>1, <2>3 DEF Reliable
  <2>5. q \in AnyReq /\ FilledIn(q)
    BY <2>3 DEF AnyReq, FilledIn
  <2> HIDE DEF q
  <2> QED BY <2>1, <2>4, <2>5, QuietInv DEF ReadExisting
<1> QED BY <1>2, <1>3

\* The body of WritersOfHomeOrGroup.
ByWriter ==
    \A o \in Options : options'[o] # options[o] =>
       \/ options'[o].fam \in WriterOf[actor']
       \/ /\ Live(o) /\ options[o].group # None
          /\ groups[options[o].group].fam \in WriterOf[actor']
          /\ options'[o] \in {[options[o] EXCEPT !.visible = options'[o].visible],
                              [options[o] EXCEPT !.group = None]}

\* With GroupsExist', the body of GroupsFollowClaims.
Placed ==
    \A o \in Options :
       options'[o].status = "live" /\ options'[o].group # None =>
          \/ groups'[options'[o].group].fam = options'[o].fam
          \/ Live(o) /\ options[o].group = options'[o].group
          \/ Claimed(o, options'[o].group)

\* What a step does to the options.
Proper == ByWriter /\ Placed

\* A step that leaves the options alone.
LEMMA ProperQuiet ==
    ASSUME UNCHANGED options
    PROVE  Proper
BY DEF Proper, ByWriter, Placed, Live

\* What a handler at its last statement knows.
LEMMA AtWrite ==
    ASSUME IInv, NEW r \in Reqs, reqs[r].pc = "write"
    PROVE  /\ Reliable(reqs[r], options, groups)
           /\ reqs[r].kind = "create" => reqs[r] \in CreateReq
           /\ reqs[r].kind = "update" =>
                 reqs[r] \in UpdateReq /\ reqs[r].group # Unset /\ reqs[r].visible # Unset
           /\ reqs[r].kind = "assign" => reqs[r] \in AssignReq
           /\ reqs[r].kind = "bulk" => reqs[r] \in BulkReq
           /\ reqs[r].kind = "drop" => reqs[r] \in DropReq
<1>1. reqs[r] \in AnyReq /\ reqs[r].pc # "idle"
  BY DEF IInv, TypeOK, AnyReq
<1> QED BY <1>1, ReqKinds DEF IInv, TypeOK, AllReliable

\* INSERT INTO housing_options: the foreign key re-checks that the group
\* exists, and a group never changes family.
LEMMA InsertOptionInv ==
    ASSUME IInv, NEW r \in Reqs, InsertOption(r)
    PROVE  IInv' /\ Proper
<1> DEFINE q == reqs[r]
<1>1. q.pc = "write" /\ q.kind = "create" /\ Return(r) /\ groups' = groups
  BY DEF InsertOption
<1>2. q \in CreateReq /\ Reliable(q, options, groups)
  BY <1>1, AtWrite
<1>3. CASE UNCHANGED <<options, actor>>
  BY <1>1, <1>3, QuietReturnInv, ProperQuiet
<1>4. CASE ~UNCHANGED <<options, actor>>
  <2>1. PICK o \in Options :
          /\ options[o].status = "unborn"
          /\ options' = [options EXCEPT ![o] =
               [status |-> "live", fam |-> q.fam, group |-> q.group,
                visible |-> q.visible, notes |-> q.notes]]
    BY <1>4 DEF InsertOption
  <2>2. Referable(q.group) /\ actor' = q.user
    BY <1>4 DEF InsertOption
  <2> DEFINE row == [status |-> "live", fam |-> q.fam, group |-> q.group,
                     visible |-> q.visible, notes |-> q.notes]
  <2>3. row \in Option /\ q.user \in Users
    BY <1>2 DEF CreateReq
  <2>4. options \in [Options -> Option] /\ groups \in [Groups -> Group]
    BY DEF IInv, TypeOK
  <2>5. /\ row.group # None => GroupLive(row.group) /\ groups[row.group].fam = row.fam
        /\ row.fam \in WriterOf[q.user]
    BY <1>1, <1>2, <2>2 DEF Reliable, Referable, CreateReq
  <2> HIDE DEF row
  <2>6. options' = [options EXCEPT ![o] = row]
    BY <2>1 DEF row
  <2>7. TablesOK'
    BY <1>1, <2>2, <2>3, <2>4, <2>6 DEF TablesOK
  <2>8. GroupsExist'
    BY <1>1, <2>4, <2>5, <2>6 DEF IInv, GroupsExist, Live, GroupLive
  <2>9. Permanent(options, groups, options', groups')
    BY <1>1, <2>1, <2>4, <2>6 DEF Permanent
  <2>10. ByWriter
    BY <2>2, <2>4, <2>5, <2>6 DEF ByWriter
  <2>11. Placed
    BY <1>1, <2>4, <2>5, <2>6 DEF Placed, Live
  <2> QED BY <1>1, <2>7, <2>8, <2>9, <2>10, <2>11, ReturnInv DEF Proper
<1> QED BY <1>3, <1>4

\* One live row changes, in columns other than status and fam.
LEMMA RowWriteInv ==
    ASSUME IInv, NEW o \in Options, NEW row \in Option,
           Live(o), row.fam = options[o].fam, row.status \in {"live", "deleted"},
           row.status = "live" /\ row.group # None =>
              /\ GroupLive(row.group)
              /\ \/ groups[row.group].fam = row.fam
                 \/ row.group = options[o].group
                 \/ Claimed(o, row.group),
           options' = [options EXCEPT ![o] = row],
           groups' = groups, actor' \in Users, options[o].fam \in WriterOf[actor']
    PROVE  /\ TablesOK' /\ GroupsExist' /\ Proper
           /\ Permanent(options, groups, options', groups')
<1>1. options \in [Options -> Option] /\ groups \in [Groups -> Group]
  BY DEF IInv, TypeOK
<1>2. TablesOK'
  BY <1>1 DEF TablesOK
<1>3. GroupsExist'
  BY <1>1 DEF IInv, GroupsExist, Live, GroupLive
<1>4. Permanent(options, groups, options', groups')
  BY <1>1 DEF Permanent, Live
<1>5. ByWriter
  BY <1>1 DEF ByWriter
<1>6. Placed
  <2> SUFFICES ASSUME NEW a \in Options, options'[a].status = "live", options'[a].group # None
               PROVE  \/ groups'[options'[a].group].fam = options'[a].fam
                      \/ Live(a) /\ options[a].group = options'[a].group
                      \/ Claimed(a, options'[a].group)
    BY DEF Placed
  <2>1. CASE a = o
    BY <1>1, <2>1
  <2>2. CASE a # o
    BY <1>1, <2>2 DEF Live
  <2> QED BY <2>1, <2>2
<1> QED BY <1>2, <1>3, <1>4, <1>5, <1>6 DEF Proper

\* UPDATE housing_options: the group is of the family the request named.
LEMMA UpdateRowInv ==
    ASSUME IInv, NEW r \in Reqs, UpdateRow(r)
    PROVE  IInv' /\ Proper
<1> DEFINE q == reqs[r]
           row == [options[q.opt] EXCEPT !.group = q.group, !.visible = q.visible]
<1>1. q.pc = "write" /\ q.kind = "update" /\ Return(r) /\ groups' = groups
  BY DEF UpdateRow
<1>2. q \in UpdateReq /\ q.group # Unset /\ q.visible # Unset /\ Reliable(q, options, groups)
  BY <1>1, AtWrite
<1>3. CASE UNCHANGED <<options, actor>>
  BY <1>1, <1>3, QuietReturnInv, ProperQuiet
<1>4. CASE ~UNCHANGED <<options, actor>>
  <2>1. options \in [Options -> Option] /\ groups \in [Groups -> Group]
    BY DEF IInv, TypeOK
  <2>2. /\ q.opt \in Options /\ q.user \in Users
        /\ q.group \in Groups \cup {None} /\ q.visible \in BOOLEAN
    BY <1>2 DEF UpdateReq
  <2>3. /\ Live(q.opt) /\ options[q.opt].fam \in WriterOf[q.user]
        /\ Referable(q.group) /\ actor' = q.user
        /\ options' = [options EXCEPT ![q.opt] = row]
    BY <1>4, <2>1, <2>2 DEF UpdateRow
  <2>4. /\ row \in Option /\ row.fam = options[q.opt].fam /\ row.status = "live"
        /\ row.group = q.group
    <3>1. options[q.opt] \in Option /\ options[q.opt].status = "live"
      BY <2>1, <2>2, <2>3 DEF Live
    <3> HIDE DEF q
    <3> QED BY <2>2, <3>1
  <2>5. q.group # None => GroupLive(q.group) /\ Claimed(q.opt, q.group)
    <3>1. reqs'[r].pc = "idle"
      BY <1>1 DEF Return, IdleReq, IInv, TypeOK
    <3> QED BY <1>1, <1>2, <2>3, <3>1 DEF Reliable, Referable, Claimed
  <2> HIDE DEF row, q
  <2>6. /\ TablesOK' /\ GroupsExist' /\ Proper
        /\ Permanent(options, groups, options', groups')
    BY <1>1, <2>2, <2>3, <2>4, <2>5, RowWriteInv
  <2> QED BY <1>1, <2>6, ReturnInv
<1> QED BY <1>3, <1>4

\* AssignHousingOptionGroup compares the families in its statement.
LEMMA AssignRowInv ==
    ASSUME IInv, NEW r \in Reqs, AssignRow(r)
    PROVE  IInv' /\ Proper
<1> DEFINE q == reqs[r]
           row == [options[q.opt] EXCEPT !.group = q.group]
<1>1. q.pc = "write" /\ q.kind = "assign" /\ Return(r) /\ groups' = groups
  BY DEF AssignRow
<1>2. q \in AssignReq
  BY <1>1, AtWrite
<1>3. CASE UNCHANGED <<options, actor>>
  BY <1>1, <1>3, QuietReturnInv, ProperQuiet
<1>4. CASE ~UNCHANGED <<options, actor>>
  <2>1. options \in [Options -> Option] /\ groups \in [Groups -> Group]
    BY DEF IInv, TypeOK
  <2>2. q.opt \in Options /\ q.user \in Users /\ q.group \in Groups \cup {None}
    BY <1>2 DEF AssignReq
  <2>3. /\ Live(q.opt) /\ options[q.opt].fam \in WriterOf[q.user]
        /\ q.group # None => options[q.opt].fam = groups[q.group].fam
        /\ Referable(q.group) /\ actor' = q.user
        /\ options' = [options EXCEPT ![q.opt] = row]
    BY <1>4, <2>1, <2>2 DEF AssignRow
  <2>4. /\ row \in Option /\ row.fam = options[q.opt].fam /\ row.status = "live"
        /\ row.group = q.group
    BY <2>1, <2>2, <2>3 DEF Live
  <2> HIDE DEF row, q
  <2>5. /\ TablesOK' /\ GroupsExist' /\ Proper
        /\ Permanent(options, groups, options', groups')
    BY <1>1, <2>2, <2>3, <2>4, RowWriteInv DEF Referable
  <2> QED BY <1>1, <2>5, ReturnInv
<1> QED BY <1>3, <1>4

\* BulkUpdateHousingGroupVisibility changes the members' visibility only.
LEMMA BulkRowsInv ==
    ASSUME IInv, NEW r \in Reqs, BulkRows(r)
    PROVE  IInv' /\ Proper
<1> DEFINE q == reqs[r]
<1>1. /\ q.pc = "write" /\ q.kind = "bulk" /\ Return(r) /\ groups' = groups
      /\ actor' = q.user
      /\ options' = [o \in Options |-> IF o \in Members(q.group)
                                       THEN [options[o] EXCEPT !.visible = q.visible]
                                       ELSE options[o]]
  BY DEF BulkRows
<1>2. q \in BulkReq /\ groups[q.group].fam \in WriterOf[q.user]
  BY <1>1, AtWrite DEF Reliable
<1>3. q.group \in Groups /\ q.user \in Users /\ q.visible \in BOOLEAN
  BY <1>2 DEF BulkReq
<1>4. options \in [Options -> Option] /\ groups \in [Groups -> Group]
  BY DEF IInv, TypeOK
<1> HIDE DEF q
<1>5. \A o \in Options : /\ options'[o] \in Option
                         /\ options'[o].status = options[o].status
                         /\ options'[o].fam = options[o].fam
                         /\ options'[o].group = options[o].group
  BY <1>1, <1>3, <1>4
<1>6. TablesOK'
  <2>1. options' \in [Options -> Option]
    BY <1>1, <1>3, <1>4
  <2> QED BY <1>1, <1>3, <1>4, <2>1 DEF TablesOK
<1>7. GroupsExist'
  BY <1>1, <1>5 DEF IInv, GroupsExist, Live, GroupLive
<1>8. Permanent(options, groups, options', groups')
  BY <1>1, <1>5 DEF Permanent
<1>9. ByWriter
  <2> SUFFICES ASSUME NEW o \in Options, options'[o] # options[o]
               PROVE  /\ Live(o) /\ options[o].group # None
                      /\ groups[options[o].group].fam \in WriterOf[actor']
                      /\ options'[o] = [options[o] EXCEPT !.visible = options'[o].visible]
    BY DEF ByWriter
  <2>1. o \in Members(q.group)
    BY <1>1
  <2>2. Live(o) /\ options[o].group = q.group /\ q.group # None
    BY <1>3, <2>1, HousingAssumption DEF Members
  <2>3. options'[o] = [options[o] EXCEPT !.visible = q.visible] /\ options'[o].visible = q.visible
    BY <1>1, <1>4, <2>1
  <2> QED BY <1>1, <1>2, <2>2, <2>3 DEF q
<1>10. Placed
  BY <1>5 DEF Placed, Live
<1> QED BY <1>1, <1>6, <1>7, <1>8, <1>9, <1>10, ReturnInv DEF Proper

\* DeleteHousingGroup leaves no option in the group.
LEMMA DropGroupRowInv ==
    ASSUME IInv, NEW r \in Reqs, DropGroupRow(r)
    PROVE  IInv' /\ Proper
<1> DEFINE q == reqs[r]
<1>1. q.pc = "write" /\ q.kind = "drop" /\ Return(r)
  BY DEF DropGroupRow
<1>2. q \in DropReq /\ groups[q.group].fam \in WriterOf[q.user]
  BY <1>1, AtWrite DEF Reliable
<1>3. q.group \in Groups /\ q.user \in Users
  BY <1>2 DEF DropReq
<1>4. CASE ~GroupLive(q.group)
  <2>1. UNCHANGED <<options, groups, actor>>
    BY <1>4 DEF DropGroupRow
  <2> QED BY <1>1, <2>1, QuietReturnInv, ProperQuiet
<1>5. CASE GroupLive(q.group)
  <2>1. /\ groups' = [groups EXCEPT ![q.group].status = "deleted"]
        /\ actor' = q.user
        /\ options' = [o \in Options |-> IF o \in Members(q.group)
                                         THEN [options[o] EXCEPT !.group = None]
                                         ELSE options[o]]
    BY <1>5 DEF DropGroupRow
  <2>2. options \in [Options -> Option] /\ groups \in [Groups -> Group]
    BY DEF IInv, TypeOK
  <2> HIDE DEF q
  <2>3. \A o \in Options : /\ options'[o] \in Option
                           /\ options'[o].status = options[o].status
                           /\ options'[o].fam = options[o].fam
                           /\ IF o \in Members(q.group)
                              THEN options'[o].group = None
                              ELSE options'[o] = options[o]
    BY <2>1, <2>2
  <2>4. \A g \in Groups : /\ groups'[g] \in Group
                          /\ groups'[g].fam = groups[g].fam
                          /\ g # q.group => groups'[g] = groups[g]
                          /\ groups'[g].status = "unborn" => groups[g].status = "unborn"
    BY <1>3, <2>1, <2>2
  <2>5. TablesOK'
    <3>1. options' \in [Options -> Option]
      BY <2>1, <2>2
    <3>2. groups' \in [Groups -> Group]
      BY <1>3, <2>1, <2>2
    <3> QED BY <1>3, <2>1, <3>1, <3>2 DEF TablesOK
  <2>6. GroupsExist'
    <3> SUFFICES ASSUME NEW o \in Options, options'[o].status = "live",
                        options'[o].group # None
                 PROVE  groups'[options'[o].group].status = "live"
      BY DEF GroupsExist, Live, GroupLive
    <3>1. o \notin Members(q.group) /\ options'[o] = options[o]
      BY <2>3
    <3>2. options[o].group \in Groups /\ options[o].group # q.group
      BY <2>2, <3>1 DEF Members, Live
    <3> QED BY <2>4, <3>1, <3>2 DEF IInv, GroupsExist, Live, GroupLive
  <2>7. Permanent(options, groups, options', groups')
    BY <2>3, <2>4 DEF Permanent
  <2>8. ByWriter
    <3> SUFFICES ASSUME NEW o \in Options, options'[o] # options[o]
                 PROVE  /\ Live(o) /\ options[o].group # None
                        /\ groups[options[o].group].fam \in WriterOf[actor']
                        /\ options'[o] = [options[o] EXCEPT !.group = None]
      BY DEF ByWriter
    <3>1. o \in Members(q.group)
      BY <2>3
    <3>2. Live(o) /\ options[o].group = q.group /\ q.group # None
      BY <1>3, <3>1, HousingAssumption DEF Members
    <3> QED BY <1>2, <2>1, <3>1, <3>2 DEF q
  <2>9. Placed
    BY <2>3 DEF Placed, Live
  <2> QED BY <1>1, <2>5, <2>6, <2>7, <2>8, <2>9, ReturnInv DEF Proper
<1> QED BY <1>4, <1>5

\* Operations of a single statement.
LEMMA StatementInv ==
    ASSUME IInv, NEW u \in Users,
           \/ \E f \in Families, g \in Groups : CreateGroup(u, f, g)
           \/ \E o \in Options :
               \/ \E v \in BOOLEAN : UpdateVisibility(u, o, v)
               \/ \E n \in Notes : UpdateNotes(u, o, n)
               \/ DeleteOption(u, o)
    PROVE  IInv' /\ Proper
<1>1. options \in [Options -> Option] /\ groups \in [Groups -> Group]
  BY DEF IInv, TypeOK
<1>2. reqs' = reqs /\ actor' = u
  BY DEF CreateGroup, UpdateVisibility, UpdateNotes, DeleteOption
<1>3. ASSUME TablesOK', GroupsExist', Permanent(options, groups, options', groups')
      PROVE  IInv'
  <2>1. AllReliable'
    BY <1>2, <1>3, TableStep DEF IInv
  <2>2. TypeOK'
    BY <1>2, <1>3 DEF IInv, TypeOK, TablesOK
  <2> QED BY <1>3, <2>1, <2>2 DEF IInv
<1>4. CASE \E f \in Families, g \in Groups : CreateGroup(u, f, g)
  <2>1. PICK f \in Families, g \in Groups : CreateGroup(u, f, g)
    BY <1>4
  <2>2. /\ groups[g].status = "unborn" /\ options' = options
        /\ groups' = [groups EXCEPT ![g] = [status |-> "live", fam |-> f]]
    BY <2>1 DEF CreateGroup
  <2>3. TablesOK'
    BY <1>1, <1>2, <2>2 DEF TablesOK
  <2>4. GroupsExist'
    BY <1>1, <2>2 DEF IInv, GroupsExist, Live, GroupLive
  <2>5. Permanent(options, groups, options', groups')
    BY <1>1, <2>2 DEF Permanent
  <2>6. Proper
    BY <2>2, ProperQuiet
  <2> QED BY <1>3, <2>3, <2>4, <2>5, <2>6
<1>5. ASSUME NEW o \in Options, MayWrite(u, o), NEW row \in Option,
             options' = [options EXCEPT ![o] = row], groups' = groups,
             row.fam = options[o].fam, row.group = options[o].group,
             row.status \in {"live", "deleted"}
      PROVE  IInv' /\ Proper
  <2>1. Live(o) /\ options[o].fam \in WriterOf[u]
    BY <1>5 DEF MayWrite
  <2>2. row.group # None => GroupLive(row.group)
    BY <1>5, <2>1 DEF IInv, GroupsExist
  <2>3. /\ TablesOK' /\ GroupsExist' /\ Proper
        /\ Permanent(options, groups, options', groups')
    BY <1>2, <1>5, <2>1, <2>2, RowWriteInv
  <2> QED BY <1>3, <2>3
<1>6. ASSUME NEW o \in Options, NEW v \in BOOLEAN, UpdateVisibility(u, o, v)
      PROVE  IInv' /\ Proper
  <2> DEFINE row == [options[o] EXCEPT !.visible = v]
  <2>1. MayWrite(u, o) /\ groups' = groups /\ options' = [options EXCEPT ![o] = row]
    BY <1>1, <1>6 DEF UpdateVisibility
  <2>2. /\ row \in Option /\ row.fam = options[o].fam /\ row.group = options[o].group
        /\ row.status \in {"live", "deleted"}
    BY <1>1, <2>1 DEF MayWrite, Live
  <2> HIDE DEF row
  <2> QED BY <1>5, <2>1, <2>2
<1>7. ASSUME NEW o \in Options, NEW n \in Notes, UpdateNotes(u, o, n)
      PROVE  IInv' /\ Proper
  <2> DEFINE row == [options[o] EXCEPT !.notes = n]
  <2>1. MayWrite(u, o) /\ groups' = groups /\ options' = [options EXCEPT ![o] = row]
    BY <1>1, <1>7 DEF UpdateNotes
  <2>2. /\ row \in Option /\ row.fam = options[o].fam /\ row.group = options[o].group
        /\ row.status \in {"live", "deleted"}
    BY <1>1, <2>1 DEF MayWrite, Live
  <2> HIDE DEF row
  <2> QED BY <1>5, <2>1, <2>2
<1>8. ASSUME NEW o \in Options, DeleteOption(u, o)
      PROVE  IInv' /\ Proper
  <2> DEFINE row == [options[o] EXCEPT !.status = "deleted"]
  <2>1. MayWrite(u, o) /\ groups' = groups /\ options' = [options EXCEPT ![o] = row]
    BY <1>1, <1>8 DEF DeleteOption
  <2>2. /\ row \in Option /\ row.fam = options[o].fam /\ row.group = options[o].group
        /\ row.status \in {"live", "deleted"}
    BY <1>1
  <2> HIDE DEF row
  <2> QED BY <1>5, <2>1, <2>2
<1> QED BY <1>4, <1>6, <1>7, <1>8

\* Every step keeps the invariant and treats the options properly.
LEMMA StepInv ==
    ASSUME IInv, [Next]_vars
    PROVE  IInv' /\ Proper
<1>1. ASSUME NEW r \in Reqs,
             \/ StartCreate(r) \/ StartUpdate(r) \/ StartAssign(r)
             \/ StartBulk(r) \/ StartDropGroup(r)
      PROVE  IInv' /\ Proper
  <2>1. UNCHANGED options
    BY <1>1 DEF StartCreate, StartUpdate, StartAssign, StartBulk, StartDropGroup, Start
  <2> QED BY <1>1, <2>1, StartInv, ProperQuiet
<1>2. ASSUME NEW r \in Reqs,
             \/ ReadExisting(r) \/ CheckGroup(r) \/ FindAssigned(r)
             \/ CheckGroupWriter(r) \/ Fail(r)
      PROVE  IInv' /\ Proper
  <2>1. UNCHANGED options
    BY <1>2 DEF ReadExisting, CheckGroup, FindAssigned, CheckGroupWriter, Fail
  <2>2. ASSUME Fail(r)
        PROVE  IInv'
    BY <2>2, QuietReturnInv DEF Fail
  <2> QED BY <1>2, <2>1, <2>2, ReadExistingInv, CheckInv, ProperQuiet
<1>3. ASSUME NEW r \in Reqs,
             \/ InsertOption(r) \/ UpdateRow(r) \/ AssignRow(r)
             \/ BulkRows(r) \/ DropGroupRow(r)
      PROVE  IInv' /\ Proper
  BY <1>3, InsertOptionInv, UpdateRowInv, AssignRowInv, BulkRowsInv, DropGroupRowInv
<1>4. CASE UNCHANGED vars
  <2>1. IInv'
    BY <1>4 DEF vars, IInv, TypeOK, GroupsExist, AllReliable, Reliable, Live, GroupLive
  <2> QED BY <1>4, <2>1, ProperQuiet DEF vars
<1> QED BY <1>1, <1>2, <1>3, <1>4, StatementInv DEF Next

\* The invariant of the housing tables and of every handler in flight
\* (internal/repository/postgres/housing.go): a group that options are in exists,
\* and what a handler checked before its last statement still holds.
THEOREM HousingInvariant == Spec => []IInv
<1>1. Init => IInv
  BY InitIInv
<1>2. IInv /\ [Next]_vars => IInv'
  BY StepInv
<1> QED BY <1>1, <1>2, PTL DEF Spec

\* The rows of options and groups and the records of the handlers keep their
\* types at every statement of every handler.
THEOREM HousingTypes == Spec => []TypeOK
<1>1. IInv => TypeOK
  BY DEF IInv
<1> QED BY <1>1, HousingInvariant, PTL

\* validateHousingGroupAssignment and AssignHousingOptionGroup: a group is there
\* and of the option's family when an option gets into it, although it is checked in
\* another statement than the one that stores it, except when an update named the
\* group's family instead of the option's.
THEOREM GroupsFollow == Spec => GroupsFollowClaims
<1>1. IInv /\ [Next]_vars =>
        [\A o \in Options :
           options'[o].status = "live" /\ options'[o].group # None =>
              /\ groups'[options'[o].group].status = "live"
              /\ \/ groups'[options'[o].group].fam = options'[o].fam
                 \/ Live(o) /\ options[o].group = options'[o].group
                 \/ Claimed(o, options'[o].group)]_vars
  <2> SUFFICES ASSUME IInv, [Next]_vars, NEW o \in Options,
                      options'[o].status = "live", options'[o].group # None
               PROVE  /\ groups'[options'[o].group].status = "live"
                      /\ \/ groups'[options'[o].group].fam = options'[o].fam
                         \/ Live(o) /\ options[o].group = options'[o].group
                         \/ Claimed(o, options'[o].group)
    OBVIOUS
  <2>1. IInv' /\ Proper
    BY StepInv
  <2>2. groups'[options'[o].group].status = "live"
    BY <2>1 DEF IInv, GroupsExist, Live, GroupLive
  <2>3. Placed
    BY <2>1 DEF Proper
  <2> QED BY <2>2, <2>3, Zenon DEF Placed
<1> QED BY <1>1, HousingInvariant, PTL DEF Spec, GroupsFollowClaims

\* Whoever changes an option writes for its family, or for the family of the
\* group it is in, and then only hides it, shows it or takes it out of the group.
THEOREM OnlyWritersWrite == Spec => WritersOfHomeOrGroup
<1>1. IInv /\ [Next]_vars =>
        [\A o \in Options : options'[o] # options[o] =>
          \/ options'[o].fam \in WriterOf[actor']
          \/ /\ Live(o) /\ options[o].group # None
             /\ groups[options[o].group].fam \in WriterOf[actor']
             /\ options'[o] \in {[options[o] EXCEPT !.visible = options'[o].visible],
                                 [options[o] EXCEPT !.group = None]}]_vars
  <2> SUFFICES ASSUME IInv, [Next]_vars, ~UNCHANGED vars
               PROVE  ByWriter
    BY DEF ByWriter
  <2> QED BY StepInv DEF Proper
<1> QED BY <1>1, HousingInvariant, PTL DEF Spec, WritersOfHomeOrGroup

-----------------------------------------------------------------------------
(* The notepad.  The types of requests are not needed.                     *)

IsOption(x) == x = [status |-> x.status, fam |-> x.fam, group |-> x.group,
                    visible |-> x.visible, notes |-> x.notes]

\* The table has rows of five columns, whatever is in them.
RowsInv ==
    /\ options = [o \in Options |-> options[o]]
    /\ \A o \in Options : IsOption(options[o])

\* What a step does to the row of an option: it replaces a row that is not there,
\* writes the notepad only, or writes other columns.
RowStep(o) ==
    /\ IsOption(options'[o])
    /\ \/ options[o].status # "live"
       \/ options'[o].notes = options[o].notes
       \/ options'[o] = [options[o] EXCEPT !.notes = options'[o].notes]

RowsKept == options' = [o \in Options |-> options'[o]] /\ \A o \in Options : RowStep(o)

\* A write to one row keeps the rows if that row keeps its notes or nothing
\* but them changes.
LEMMA OneRow ==
    ASSUME RowsInv, NEW o, NEW x, options' = [options EXCEPT ![o] = x],
           o \in Options => /\ IsOption(x)
                            /\ \/ options[o].status # "live"
                               \/ x.notes = options[o].notes
                               \/ x = [options[o] EXCEPT !.notes = x.notes]
    PROVE  RowsKept
<1>1. options' = [a \in Options |-> IF a = o THEN x ELSE options[a]]
    BY DEF RowsInv
<1>2. ASSUME NEW a \in Options PROVE RowStep(a)
    BY <1>1, <1>2 DEF RowsInv, RowStep
<1>3. QED BY <1>1, <1>2 DEF RowsKept

\* Every step keeps the rows.
LEMMA RowsStep ==
    ASSUME RowsInv, [Next]_vars
    PROVE  RowsKept
<1>1. ASSUME options' = options PROVE RowsKept
    BY <1>1 DEF RowsInv, RowStep, RowsKept
<1>2. ASSUME NEW r \in Reqs, InsertOption(r) PROVE RowsKept
  <2>1. CASE options' = options BY <1>1, <2>1
  <2>2. CASE options' # options
    <3>1. PICK o \in Options :
            /\ options[o].status = "unborn"
            /\ options' = [options EXCEPT ![o] =
                 [status |-> "live", fam |-> reqs[r].fam, group |-> reqs[r].group,
                  visible |-> reqs[r].visible, notes |-> reqs[r].notes]]
        BY <1>2, <2>2 DEF InsertOption
    <3>2. IsOption([status |-> "live", fam |-> reqs[r].fam, group |-> reqs[r].group,
                    visible |-> reqs[r].visible, notes |-> reqs[r].notes])
        BY DEF IsOption
    <3>3. QED BY <3>1, <3>2, OneRow
  <2>3. QED BY <2>1, <2>2
<1>3. ASSUME NEW o, NEW g, NEW v,
             options' = [options EXCEPT ![o].group = g, ![o].visible = v]
      PROVE  RowsKept
  <2> DEFINE x == [[options[o] EXCEPT !.group = g] EXCEPT !.visible = v]
  <2>1. options' = [options EXCEPT ![o] = x]
    <3>1. CASE o \in Options BY <1>3, <3>1 DEF RowsInv
    <3>2. CASE o \notin Options BY <1>3, <3>2 DEF RowsInv
    <3>3. QED BY <3>1, <3>2
  <2>2. o \in Options => x = [status |-> options[o].status, fam |-> options[o].fam, group |-> g,
                              visible |-> v, notes |-> options[o].notes]
    <3> SUFFICES ASSUME o \in Options
                 PROVE  x = [status |-> options[o].status, fam |-> options[o].fam, group |-> g,
                             visible |-> v, notes |-> options[o].notes]
        OBVIOUS
    <3>1. [options[o] EXCEPT !.group = g] =
            [status |-> options[o].status, fam |-> options[o].fam, group |-> g,
             visible |-> options[o].visible, notes |-> options[o].notes]
        BY DEF RowsInv, IsOption
    <3> DEFINE y == [status |-> options[o].status, fam |-> options[o].fam, group |-> g,
                     visible |-> options[o].visible, notes |-> options[o].notes]
    <3>2. x = [y EXCEPT !.visible = v]
        BY <3>1
    <3>3. [y EXCEPT !.visible = v] =
            [status |-> options[o].status, fam |-> options[o].fam, group |-> g,
             visible |-> v, notes |-> options[o].notes]
        OBVIOUS
    <3>4. QED BY <3>2, <3>3
  <2>3. QED BY <2>1, <2>2, OneRow DEF IsOption
<1>4. ASSUME NEW r \in Reqs, UpdateRow(r) PROVE RowsKept
    BY <1>1, <1>3, <1>4 DEF UpdateRow
<1>5. ASSUME NEW r \in Reqs, AssignRow(r) PROVE RowsKept
  <2>1. CASE options' = options BY <1>1, <2>1
  <2>2. CASE options' # options
    <3> DEFINE o == reqs[r].opt
               x == [options[o] EXCEPT !.group = reqs[r].group]
    <3>1. options' = [options EXCEPT ![o] = x]
        BY <1>5, <2>2 DEF AssignRow
    <3>2. o \in Options =>
            x = [status |-> options[o].status, fam |-> options[o].fam, group |-> reqs[r].group,
                 visible |-> options[o].visible, notes |-> options[o].notes]
        BY DEF RowsInv, IsOption
    <3> HIDE DEF o
    <3>3. QED BY <3>1, <3>2, OneRow DEF IsOption
  <2>3. QED BY <2>1, <2>2
<1>6. ASSUME NEW r \in Reqs, BulkRows(r) PROVE RowsKept
  <2>1. options' = [o \in Options |-> IF o \in Members(reqs[r].group)
                                      THEN [options[o] EXCEPT !.visible = reqs[r].visible]
                                      ELSE options[o]]
      BY <1>6 DEF BulkRows
  <2>2. ASSUME NEW o \in Options PROVE RowStep(o)
    <3>1. CASE options'[o] = options[o] BY <3>1 DEF RowsInv, RowStep
    <3>2. CASE options'[o] # options[o]
      <4>1. options'[o] = [status |-> options[o].status, fam |-> options[o].fam,
                           group |-> options[o].group, visible |-> reqs[r].visible,
                           notes |-> options[o].notes]
          BY <2>1, <3>2 DEF RowsInv, IsOption
      <4>2. QED BY <4>1 DEF RowStep, IsOption
    <3>3. QED BY <3>1, <3>2
  <2>3. QED BY <2>1, <2>2 DEF RowsKept
<1>7. ASSUME NEW r \in Reqs, DropGroupRow(r) PROVE RowsKept
  <2>1. CASE options' = options BY <1>1, <2>1
  <2>2. CASE options' # options
    <3>1. options' = [o \in Options |-> IF o \in Members(reqs[r].group)
                                        THEN [options[o] EXCEPT !.group = None]
                                        ELSE options[o]]
        BY <1>7, <2>2 DEF DropGroupRow
    <3>2. ASSUME NEW o \in Options PROVE RowStep(o)
      <4>1. CASE options'[o] = options[o] BY <4>1 DEF RowsInv, RowStep
      <4>2. CASE options'[o] # options[o]
        <5>1. options'[o] = [status |-> options[o].status, fam |-> options[o].fam,
                             group |-> None, visible |-> options[o].visible,
                             notes |-> options[o].notes]
            BY <3>1, <4>2 DEF RowsInv, IsOption
        <5>2. QED BY <5>1 DEF RowStep, IsOption
      <4>3. QED BY <4>1, <4>2
    <3>3. QED BY <3>1, <3>2 DEF RowsKept
  <2>3. QED BY <2>1, <2>2
<1>8. ASSUME NEW u \in Users, NEW o \in Options, NEW v, UpdateVisibility(u, o, v) PROVE RowsKept
  <2>1. options' = [options EXCEPT ![o] = [options[o] EXCEPT !.visible = v]]
      BY <1>8 DEF UpdateVisibility
  <2>2. [options[o] EXCEPT !.visible = v] =
          [status |-> options[o].status, fam |-> options[o].fam, group |-> options[o].group,
           visible |-> v, notes |-> options[o].notes]
      BY DEF RowsInv, IsOption
  <2>3. QED BY <2>1, <2>2, OneRow DEF IsOption
<1>9. ASSUME NEW u \in Users, NEW o \in Options, NEW n, UpdateNotes(u, o, n) PROVE RowsKept
  <2>1. options' = [options EXCEPT ![o] = [options[o] EXCEPT !.notes = n]]
      BY <1>9 DEF UpdateNotes
  <2>2. [options[o] EXCEPT !.notes = n] =
          [status |-> options[o].status, fam |-> options[o].fam, group |-> options[o].group,
           visible |-> options[o].visible, notes |-> n]
      BY DEF RowsInv, IsOption
  <2>3. QED BY <2>1, <2>2, OneRow DEF IsOption
<1>10. ASSUME NEW u \in Users, NEW o \in Options, DeleteOption(u, o) PROVE RowsKept
  <2>1. options' = [options EXCEPT ![o] = [options[o] EXCEPT !.status = "deleted"]]
      BY <1>10 DEF DeleteOption
  <2>2. [options[o] EXCEPT !.status = "deleted"] =
          [status |-> "deleted", fam |-> options[o].fam, group |-> options[o].group,
           visible |-> options[o].visible, notes |-> options[o].notes]
      BY DEF RowsInv, IsOption
  <2>3. QED BY <2>1, <2>2, OneRow DEF IsOption
<1>11. ASSUME NEW r \in Reqs,
              \/ StartCreate(r) \/ StartUpdate(r) \/ StartAssign(r)
              \/ StartBulk(r) \/ StartDropGroup(r) \/ Fail(r)
              \/ ReadExisting(r) \/ CheckGroup(r) \/ FindAssigned(r) \/ CheckGroupWriter(r)
       PROVE  options' = options
    BY <1>11 DEF StartCreate, StartUpdate, StartAssign, StartBulk, StartDropGroup, Start, Fail,
        ReadExisting, CheckGroup, FindAssigned, CheckGroupWriter
<1>12. ASSUME NEW u \in Users, NEW f \in Families, NEW g \in Groups, CreateGroup(u, f, g)
       PROVE  options' = options
    BY <1>12 DEF CreateGroup
<1>13. CASE UNCHANGED vars BY <1>1, <1>13 DEF vars
<1>14. CASE Next
    BY <1>1, <1>2, <1>4, <1>5, <1>6, <1>7, <1>8, <1>9, <1>10, <1>11, <1>12, <1>14 DEF Next
<1>15. QED BY <1>13, <1>14

\* CHANGELOG.md:37: no update of details, group or visibility touches the notes of
\* an option, and a change of the notes touches nothing else, whatever family
\* the clients claim and however handlers interleave.
THEOREM NotesArePreserved == Spec => NotesPreserved
<1>1. Init => RowsInv
  <2>1. IsOption(NoOption)
      BY DEF NoOption, IsOption
  <2>2. QED BY <2>1 DEF Init, RowsInv
<1>2. RowsInv /\ [Next]_vars => RowsInv'
    BY RowsStep DEF RowsInv, RowStep, RowsKept
<1>3. RowsInv /\ [Next]_vars =>
        [\A o \in Options :
          Live(o) /\ options'[o].notes # options[o].notes =>
              options'[o] = [options[o] EXCEPT !.notes = options'[o].notes]]_vars
    BY RowsStep DEF RowStep, RowsKept, Live
<1>4. QED BY <1>1, <1>2, <1>3, PTL DEF Spec, NotesPreserved

=============================================================================

------------------------------ MODULE Housing ------------------------------
(***************************************************************************)
(* Housing options and housing groups                                      *)
(* (internal/server/housing.go, internal/repository/postgres/housing.go,   *)
(* housing_notes.go).  There are no transactions here: a handler issues    *)
(* its statements one by one on the pool, so what an earlier statement     *)
(* read may be stale when a later one uses it.  Each statement is atomic.  *)
(*                                                                         *)
(* A request carries what the handler has in its locals between            *)
(* statements.  Operations made of a single statement are single actions.  *)
(* Family memberships are constant: no code removes a member or changes a  *)
(* role.  Prices, names and the like are left out; visibility, group and   *)
(* notes are the columns several operations write.                         *)
(***************************************************************************)
EXTENDS Naturals, FiniteSets

CONSTANTS
    Families,
    Users,
    ReaderOf,   \* hasFamilyAccess: families a user is any kind of member of
    WriterOf,   \* assertFamilyWriter: as owner, admin or member
    Options,    \* housing option ids
    Groups,     \* housing group ids
    Notes,      \* contents of the notepad
    Reqs,       \* handlers in flight
    None,       \* no group (the empty string, NULL)
    Unset       \* an optional field the client left out

ASSUME HousingAssumption ==
    /\ Families # {} /\ Notes # {}
    /\ ReaderOf \in [Users -> SUBSET Families]
    /\ WriterOf \in [Users -> SUBSET Families]
    /\ \A u \in Users : WriterOf[u] \subseteq ReaderOf[u]
    /\ None \notin Groups /\ Unset \notin Groups /\ Unset # None
    /\ Unset \notin BOOLEAN

VARIABLES
    options,    \* table housing_options
    groups,     \* table housing_groups
    reqs,       \* handlers
    actor       \* history: the user of the last statement that wrote a table

vars == <<options, groups, reqs, actor>>

Status == {"unborn", "live", "deleted"}
Option == [status : Status, fam : Families, group : Groups \cup {None},
           visible : BOOLEAN, notes : Notes]
Group == [status : Status, fam : Families]

IdleReq == [pc |-> "idle"]
CreateReq == [pc : {"check", "write"}, kind : {"create"}, user : Users,
              fam : Families, group : Groups \cup {None}, visible : BOOLEAN,
              notes : Notes]
UpdateReq == [pc : {"read", "check", "write"}, kind : {"update"}, user : Users,
              opt : Options, fam : Families,
              group : Groups \cup {None, Unset},
              visible : BOOLEAN \cup {Unset}]
AssignReq == [pc : {"check", "write"}, kind : {"assign"}, user : Users,
              opt : Options, group : Groups \cup {None}]
BulkReq == [pc : {"check", "write"}, kind : {"bulk"}, user : Users,
            group : Groups, visible : BOOLEAN]
DropReq == [pc : {"check", "write"}, kind : {"drop"}, user : Users,
            group : Groups]

Live(o) == options[o].status = "live"
GroupLive(g) == groups[g].status = "live"

\* Ids are random: a client can only name one that has been handed out.
Known(o) == options[o].status # "unborn"
KnownGroup(g) == g \in Groups => groups[g].status # "unborn"

\* The foreign key of housing_group_id.
Referable(g) == g # None => GroupLive(g)

\* The fields of a row that does not exist mean nothing.
NoOption == [status |-> "unborn", fam |-> CHOOSE f \in Families : TRUE,
             group |-> None, visible |-> TRUE, notes |-> CHOOSE n \in Notes : TRUE]
NoGroup == [status |-> "unborn", fam |-> CHOOSE f \in Families : TRUE]

Init ==
    /\ options = [o \in Options |-> NoOption]
    /\ groups = [g \in Groups |-> NoGroup]
    /\ reqs = [r \in Reqs |-> IdleReq]
    /\ actor = None

Goto(r, step) == reqs' = [reqs EXCEPT ![r].pc = step]
Return(r) == reqs' = [reqs EXCEPT ![r] = IdleReq]

\* A handler starts; validation and checks of the constant memberships that
\* precede its first read of these tables have passed.
Start(r, req) ==
    /\ reqs[r].pc = "idle"
    /\ reqs' = [reqs EXCEPT ![r] = req]
    /\ UNCHANGED <<options, groups, actor>>

\* A statement fails or the client goes away: the handler returns, and what it
\* wrote before stays.
Fail(r) ==
    /\ reqs[r].pc # "idle"
    /\ Return(r)
    /\ UNCHANGED <<options, groups, actor>>

-----------------------------------------------------------------------------
(* CreateHousingOption and UpdateHousingOption.                            *)

\* Ids are uuids; the finite pool of the model must not run out in mid-request.
FreshIdLeft ==
    Cardinality({r \in Reqs : reqs[r].pc # "idle" /\ reqs[r].kind = "create"})
        < Cardinality({o \in Options : options[o].status = "unborn"})

\* An unset visible_on_dashboard means TRUE here (housingFromProto), so it is
\* no case of its own.
StartCreate(r) ==
    \E u \in Users, f \in Families, g \in Groups \cup {None}, v \in BOOLEAN, n \in Notes :
        /\ f \in WriterOf[u] /\ KnownGroup(g) /\ FreshIdLeft
        /\ Start(r, [pc |-> "check", kind |-> "create", user |-> u, fam |-> f,
                     group |-> g, visible |-> v, notes |-> n])

\* The request names a family, any family: nothing compares it with the row's.
\* When a field is left out, GetHousingOption is called first.  The grant
\* estimate in between asks for membership of the family named in the request
\* unless the home is not HDB or is deferred, so for some home types it asks
\* for nothing.
StartUpdate(r) ==
    \E u \in Users, o \in Options, g \in Groups \cup {None, Unset},
       v \in BOOLEAN \cup {Unset}, f \in Families :
        /\ Known(o) /\ KnownGroup(g)
        /\ Start(r, [pc |-> IF g = Unset \/ v = Unset THEN "read" ELSE "check",
                     kind |-> "update", user |-> u, opt |-> o, fam |-> f,
                     group |-> g, visible |-> v])

\* GetHousingOption, whose result fills the fields left out.
ReadExisting(r) ==
    LET q == reqs[r]
        old == options[q.opt] IN
    /\ q.pc = "read"
    /\ IF Live(q.opt) /\ old.fam \in ReaderOf[q.user]
       THEN reqs' = [reqs EXCEPT ![r].pc = "check",
                       ![r].group = IF @ = Unset THEN old.group ELSE @,
                       ![r].visible = IF @ = Unset THEN old.visible ELSE @]
       ELSE Return(r)
    /\ UNCHANGED <<options, groups, actor>>

\* validateHousingGroupAssignment, against the family of the request.
ValidGroup(g, f) == g # None => GroupLive(g) /\ groups[g].fam = f

CheckGroup(r) ==
    LET q == reqs[r] IN
    /\ q.pc = "check" /\ q.kind \in {"create", "update"}
    /\ IF ValidGroup(q.group, q.fam) THEN Goto(r, "write") ELSE Return(r)
    /\ UNCHANGED <<options, groups, actor>>

\* INSERT INTO housing_options
InsertOption(r) ==
    LET q == reqs[r] IN
    /\ q.pc = "write" /\ q.kind = "create"
    /\ \/ /\ Referable(q.group)
          /\ \E o \in Options :
              /\ options[o].status = "unborn"
              /\ options' = [options EXCEPT ![o] =
                   [status |-> "live", fam |-> q.fam, group |-> q.group,
                    visible |-> q.visible, notes |-> q.notes]]
          /\ actor' = q.user
       \/ ~Referable(q.group) /\ UNCHANGED <<options, actor>>
    /\ Return(r)
    /\ UNCHANGED groups

\* Fault: the statement also writes the notepad, from a request without it.
UpdateRow_WritesNotes(r) ==
    LET q == reqs[r] IN
    /\ q.pc = "write" /\ q.kind = "update"
    /\ IF Live(q.opt) /\ options[q.opt].fam \in WriterOf[q.user] /\ Referable(q.group)
       THEN /\ options' = [options EXCEPT ![q.opt].group = q.group,
                                          ![q.opt].visible = q.visible,
                                          ![q.opt].notes = NoOption.notes]
            /\ actor' = q.user
       ELSE UNCHANGED <<options, actor>>
    /\ Return(r)
    /\ UNCHANGED groups

\* UPDATE housing_options: the writer role is checked in the statement, for
\* the family of the row; notes are not written.
UpdateRow(r) ==
    LET q == reqs[r] IN
    /\ q.pc = "write" /\ q.kind = "update"
    /\ IF Live(q.opt) /\ options[q.opt].fam \in WriterOf[q.user] /\ Referable(q.group)
       THEN /\ options' = [options EXCEPT ![q.opt].group = q.group,
                                          ![q.opt].visible = q.visible]
            /\ actor' = q.user
       ELSE UNCHANGED <<options, actor>>
    /\ Return(r)
    /\ UNCHANGED groups

-----------------------------------------------------------------------------
(* AssignHousingOptionGroup.                                               *)

StartAssign(r) ==
    \E u \in Users, o \in Options, g \in Groups \cup {None} :
        /\ Known(o) /\ KnownGroup(g)
        /\ Start(r, [pc |-> IF g = None THEN "write" ELSE "check",
                     kind |-> "assign", user |-> u, opt |-> o, group |-> g])

\* getHousingGroupFamilyID; the family of a group never changes, so the
\* request need not carry it.
FindAssigned(r) ==
    LET q == reqs[r] IN
    /\ q.pc = "check" /\ q.kind = "assign"
    /\ IF GroupLive(q.group) THEN Goto(r, "write") ELSE Return(r)
    /\ UNCHANGED <<options, groups, actor>>

\* Fault: the family of the group is not compared.
AssignRow_AnyFamily(r) ==
    LET q == reqs[r] IN
    /\ q.pc = "write" /\ q.kind = "assign"
    /\ IF /\ Live(q.opt) /\ options[q.opt].fam \in WriterOf[q.user]
          /\ Referable(q.group)
       THEN /\ options' = [options EXCEPT ![q.opt].group = q.group]
            /\ actor' = q.user
       ELSE UNCHANGED <<options, actor>>
    /\ Return(r)
    /\ UNCHANGED groups

AssignRow(r) ==
    LET q == reqs[r] IN
    /\ q.pc = "write" /\ q.kind = "assign"
    /\ IF /\ Live(q.opt) /\ options[q.opt].fam \in WriterOf[q.user]
          /\ q.group # None => options[q.opt].fam = groups[q.group].fam
          /\ Referable(q.group)
       THEN /\ options' = [options EXCEPT ![q.opt].group = q.group]
            /\ actor' = q.user
       ELSE UNCHANGED <<options, actor>>
    /\ Return(r)
    /\ UNCHANGED groups

-----------------------------------------------------------------------------
(* BulkUpdateHousingGroupVisibility and DeleteHousingGroup: the group's    *)
(* family is read and the caller's role in it checked before the statement.*)

StartBulk(r) ==
    \E u \in Users, g \in Groups, v \in BOOLEAN :
        /\ KnownGroup(g)
        /\ Start(r, [pc |-> "check", kind |-> "bulk", user |-> u, group |-> g,
                     visible |-> v])

StartDropGroup(r) ==
    \E u \in Users, g \in Groups :
        /\ KnownGroup(g)
        /\ Start(r, [pc |-> "check", kind |-> "drop", user |-> u, group |-> g])

\* Fault: any member of the group's family may go on.
CheckGroupWriter_AnyMember(r) ==
    LET q == reqs[r] IN
    /\ q.pc = "check" /\ q.kind \in {"bulk", "drop"}
    /\ IF GroupLive(q.group) /\ groups[q.group].fam \in ReaderOf[q.user]
       THEN Goto(r, "write")
       ELSE Return(r)
    /\ UNCHANGED <<options, groups, actor>>

CheckGroupWriter(r) ==
    LET q == reqs[r] IN
    /\ q.pc = "check" /\ q.kind \in {"bulk", "drop"}
    /\ IF GroupLive(q.group) /\ groups[q.group].fam \in WriterOf[q.user]
       THEN Goto(r, "write")
       ELSE Return(r)
    /\ UNCHANGED <<options, groups, actor>>

Members(g) == {o \in Options : Live(o) /\ options[o].group = g}

\* UPDATE ... WHERE housing_group_id = $1, whatever the options' family.
BulkRows(r) ==
    LET q == reqs[r] IN
    /\ q.pc = "write" /\ q.kind = "bulk"
    /\ options' = [o \in Options |->
                     IF o \in Members(q.group)
                     THEN [options[o] EXCEPT !.visible = q.visible]
                     ELSE options[o]]
    /\ actor' = q.user
    /\ Return(r)
    /\ UNCHANGED groups

\* DELETE FROM housing_groups, with ON DELETE SET NULL.
DropGroupRow(r) ==
    LET q == reqs[r] IN
    /\ q.pc = "write" /\ q.kind = "drop"
    /\ IF GroupLive(q.group)
       THEN /\ groups' = [groups EXCEPT ![q.group].status = "deleted"]
            /\ options' = [o \in Options |->
                             IF o \in Members(q.group)
                             THEN [options[o] EXCEPT !.group = None]
                             ELSE options[o]]
            /\ actor' = q.user
       ELSE UNCHANGED <<options, groups, actor>>
    /\ Return(r)

-----------------------------------------------------------------------------
(* Operations of one statement, the writer role checked inside it.         *)

\* assertFamilyWriter is about constants, so the INSERT is the only step.
CreateGroup(u, f, g) ==
    /\ f \in WriterOf[u]
    /\ groups[g].status = "unborn"
    /\ groups' = [groups EXCEPT ![g] = [status |-> "live", fam |-> f]]
    /\ actor' = u
    /\ UNCHANGED <<options, reqs>>

MayWrite(u, o) == Live(o) /\ options[o].fam \in WriterOf[u]

UpdateVisibility(u, o, v) ==
    /\ MayWrite(u, o)
    /\ options' = [options EXCEPT ![o].visible = v]
    /\ actor' = u
    /\ UNCHANGED <<groups, reqs>>

UpdateNotes(u, o, n) ==
    /\ MayWrite(u, o)
    /\ options' = [options EXCEPT ![o].notes = n]
    /\ actor' = u
    /\ UNCHANGED <<groups, reqs>>

DeleteOption(u, o) ==
    /\ MayWrite(u, o)
    /\ options' = [options EXCEPT ![o].status = "deleted"]
    /\ actor' = u
    /\ UNCHANGED <<groups, reqs>>

Next ==
    \/ \E r \in Reqs :
        \/ StartCreate(r) \/ StartUpdate(r) \/ StartAssign(r)
        \/ StartBulk(r) \/ StartDropGroup(r) \/ Fail(r)
        \/ ReadExisting(r) \/ CheckGroup(r) \/ InsertOption(r) \/ UpdateRow(r)
        \/ FindAssigned(r) \/ AssignRow(r)
        \/ CheckGroupWriter(r) \/ BulkRows(r) \/ DropGroupRow(r)
    \/ \E u \in Users :
        \/ \E f \in Families, g \in Groups : CreateGroup(u, f, g)
        \/ \E o \in Options :
            \/ \E v \in BOOLEAN : UpdateVisibility(u, o, v)
            \/ \E n \in Notes : UpdateNotes(u, o, n)
            \/ DeleteOption(u, o)

Spec == Init /\ [][Next]_vars

-----------------------------------------------------------------------------
(* Properties.                                                             *)

\* Types of the tables and of the handlers' locals; a group or visibility
\* left out has been filled in before it is checked or written.
TypeOK ==
    /\ options \in [Options -> Option]
    /\ groups \in [Groups -> Group]
    /\ reqs \in [Reqs -> {IdleReq} \cup CreateReq \cup UpdateReq \cup AssignReq
                             \cup BulkReq \cup DropReq]
    /\ \A r \in Reqs : reqs[r].pc = "read" => reqs[r].kind = "update"
    /\ \A r \in Reqs :
          (reqs[r].pc \in {"check", "write"} /\ reqs[r].kind = "update")
            => reqs[r].group # Unset /\ reqs[r].visible # Unset
    /\ actor \in Users \cup {None}

\* An update that named the group's family puts option o into group g.
Claimed(o, g) == \E r \in Reqs :
    /\ reqs[r].pc = "write" /\ reqs'[r].pc = "idle" /\ reqs[r].kind = "update"
    /\ reqs[r].opt = o /\ reqs[r].group = g /\ reqs[r].fam = groups[g].fam

\* housing.go:146-149, 399-411: the group of an option exists, and belongs to the
\* option's family unless an update whose request named the group's family put the
\* option there, also when groups are deleted while assignments and updates are on
\* their way.
GroupsFollowClaims ==
    [][\A o \in Options :
         options'[o].status = "live" /\ options'[o].group # None =>
            /\ groups'[options'[o].group].status = "live"
            /\ \/ groups'[options'[o].group].fam = options'[o].fam
               \/ Live(o) /\ options[o].group = options'[o].group
               \/ Claimed(o, options'[o].group)]_vars

\* housing.go:158-411: whichever operation writes an option, directly, through its
\* group or through the deletion of its group, the caller writes for the option's
\* family, or for the family of the group the option is in; and all the latter can
\* do is to hide it, show it, or take it out of the group.
WritersOfHomeOrGroup ==
    [][\A o \in Options : options'[o] # options[o] =>
          \/ options'[o].fam \in WriterOf[actor']
          \/ /\ Live(o) /\ options[o].group # None
             /\ groups[options[o].group].fam \in WriterOf[actor']
             /\ options'[o] \in {[options[o] EXCEPT !.visible = options'[o].visible],
                                 [options[o] EXCEPT !.group = None]}]_vars

\* CHANGELOG.md:267, "enforce family role checks for create, update, and delete
\* operations": whichever operation writes an option, the caller is a writer of the
\* option's family.  It fails once an update has put the option into a group of
\* another family, which CHANGELOG.md:58 says cannot be.
WritersOnly ==
    [][\A o \in Options : options'[o] # options[o] =>
          options'[o].fam \in WriterOf[actor']]_vars

\* CHANGELOG.md:37, "Preserved shared housing notes when housing details, group
\* assignments, or visibility settings are updated": a step that changes an
\* existing option's notes changes nothing else of it.
NotesPreserved ==
    [][\A o \in Options :
          Live(o) /\ options'[o].notes # options[o].notes =>
              options'[o] = [options[o] EXCEPT !.notes = options'[o].notes]]_vars

=============================================================================

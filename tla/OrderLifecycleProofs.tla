------------------------ MODULE OrderLifecycleProofs ------------------------
(***************************************************************************)
(* Proofs about OrderLifecycle, for any number of rows, of concurrent      *)
(* transactions and of versions: types and versions for all writers; final *)
(* and expired statuses when every write goes through OrderManager.        *)
(***************************************************************************)
EXTENDS OrderLifecycle, TLAPS

\* What the proofs need of the transition table.
LEMMA AllowedType ==
    /\ Allowed \in [Status -> SUBSET Status]
    /\ Allowed["expired"] = {"filled", "partially_filled", "reconcile_required"}
    /\ \A s \in {"filled", "cancelled", "rejected"} : Allowed[s] = {}
    /\ \A s \in Status \ {"filled", "cancelled", "rejected"} : Allowed[s] # {}
BY Zenon DEF Allowed, Status

LEMMA FinalFacts ==
    /\ Final = {"filled", "cancelled", "rejected"}
    /\ \A s \in Status : \A t \in Allowed[s] : s \notin Final
BY AllowedType, Zenon DEF Final, Status

LEMMA ChainType ==
    ASSUME NEW s \in Status, NEW t \in Status
    PROVE  Chain(s, t) \in Seq(Status)
<1>1. CASE s \in {"submitted", "reconcile_required"} /\ t = "filled"
  <2>1. Chain(s, t) = <<"acknowledged", "partially_filled", "filled">>
    BY <1>1, Zenon DEF Chain
  <2> QED BY <2>1 DEF Status
<1>2. CASE s = "submitted" /\ t = "partially_filled"
  <2>1. Chain(s, t) = <<"acknowledged", "partially_filled">>
    BY <1>2, Zenon DEF Chain
  <2> QED BY <2>1 DEF Status
<1>3. CASE s = "acknowledged" /\ t = "filled"
  <2>1. Chain(s, t) = <<"partially_filled", "filled">>
    BY <1>3, Zenon DEF Chain
  <2> QED BY <2>1 DEF Status
<1>4. CASE /\ ~(s \in {"submitted", "reconcile_required"} /\ t = "filled")
           /\ ~(s = "submitted" /\ t = "partially_filled")
           /\ ~(s = "acknowledged" /\ t = "filled")
  <2>1. Chain(s, t) = <<t>>
    BY <1>4, Zenon DEF Chain
  <2> QED BY <2>1
<1> QED BY <1>1, <1>2, <1>3, <1>4, Zenon

-----------------------------------------------------------------------------
(***************************************************************************)
(* Facts every writer keeps: types, the copies a process may act on, and   *)
(* that a pending write never lowers the version of its row.               *)
(***************************************************************************)
Acting(p) == pc[p] \in {"holding", "chain", "update"}

Copies ==
    \A p \in Process :
        /\ Acting(p) => ent[p].order \in Order /\ ent[p].status \in Status
        /\ pc[p] = "update" => call[p].target \in Status
        /\ pc[p] = "chain" => call[p].by # "other"
        /\ call[p].by # "other" => call[p].goal \in Status

Drafts ==
    \A o \in Order : /\ lock[o] = NoOne => draft[o] = row[o]
                     /\ draft[o].version >= row[o].version

BaseInv == TypeOK /\ Copies /\ Drafts

LEMMA CallType ==
    ASSUME NEW t \in Status \cup {Unset}, NEW v \in Version, NEW n \in 1 .. MaxTries,
           NEW g \in Status \cup {Unset}, NEW by \in {"direct", "chain", "other"}
    PROVE  /\ CoreCall(t, v, n, g, by) \in Call
           /\ CoreCall(t, v, n, g, by).target = t
           /\ CoreCall(t, v, n, g, by).version = v
           /\ CoreCall(t, v, n, g, by).goal = g
           /\ CoreCall(t, v, n, g, by).by = by
BY Zenon DEF Call, CoreCall

LEMMA NoCallType == NoCall \in Call /\ NoCall.by = "other" /\ NoCall.goal = Unset
BY LifecycleAssumption, CallType DEF NoCall, Version, MaxTries

LEMMA BaseInit == Init => BaseInv
<1> SUFFICES ASSUME Init PROVE BaseInv
  OBVIOUS
<1> USE LifecycleAssumption
<1>1. TypeOK
  <2>1. row \in [Order -> Row]
    <3>1. Initial \subseteq Status /\ 0 \in Version
      BY DEF Version, Created, Status
    <3>2. \A o \in Order : row[o] \in [status : Initial, version : {0}]
      BY Zenon DEF Init
    <3>3. \A o \in Order : row[o] \in Row
      BY <3>1, <3>2, Zenon DEF Row
    <3> QED BY <3>3, Zenon DEF Init
  <2>2. NoEntity \in Entity /\ NoCall \in Call /\ NoEvent \in Event
    BY NoCallType DEF Entity, NoEntity, NoEvent, Event, Version
  <2> QED BY <2>1, <2>2 DEF Init, TypeOK
<1>2. Copies
  BY NoCallType, Zenon DEF Init, Copies, Acting
<1>3. Drafts
  BY DEF Init, Drafts, Version
<1> QED BY <1>1, <1>2, <1>3, Zenon DEF BaseInv

LEMMA VisibleType ==
    ASSUME TypeOK, NEW p \in Process, NEW o \in Order
    PROVE  Visible(p, o) \in Row
BY Zenon DEF TypeOK, Visible

LEMMA BaseStep == BaseInv /\ [Next]_vars => BaseInv'
<1> SUFFICES ASSUME BaseInv, [Next]_vars PROVE BaseInv'
  OBVIOUS
<1> USE LifecycleAssumption
<1> USE DEF BaseInv
<1>load. ASSUME NEW p \in Process, NEW o \in Order, Load(p, o) PROVE BaseInv'
  <2>1. Visible(p, o) \in Row
    BY VisibleType, Zenon
  <2>2. [order |-> o, status |-> Visible(p, o).status,
         version |-> Visible(p, o).version] \in Entity
    BY <2>1, Zenon DEF Entity, Row
  <2>3. NoCall \in Call /\ NoCall.by = "other"
    BY NoCallType, Zenon
  <2>4. TypeOK'
    BY <1>load, <2>2, <2>3, Zenon DEF Load, TypeOK
  <2>5. Copies'
    BY <1>load, <2>1, <2>3, Zenon DEF Load, Copies, Acting, TypeOK, Row
  <2>6. Drafts'
    BY <1>load, Zenon DEF Load, Drafts
  <2> QED BY <2>4, <2>5, <2>6, Zenon
<1>begin. ASSUME NEW p \in Process, NEW t \in Status, NEW g \in Status \cup {Unset},
                 NEW by \in {"direct", "chain", "other"}, Acting(p),
                 BeginCore(p, t, g, by), by # "other" => g \in Status,
                 rest' \in [Process -> Seq(Status)],
                 UNCHANGED <<row, lock, draft, ent, event>>
          PROVE  BaseInv'
  <2>1. /\ CoreCall(t, ent[p].version, MaxTries, g, by) \in Call
        /\ CoreCall(t, ent[p].version, MaxTries, g, by).target = t
        /\ CoreCall(t, ent[p].version, MaxTries, g, by).goal = g
        /\ CoreCall(t, ent[p].version, MaxTries, g, by).by = by
    BY CallType DEF TypeOK, Entity, MaxTries
  <2>2. TypeOK'
    BY <1>begin, <2>1, Zenon DEF BeginCore, TypeOK
  <2>3. Copies'
    BY <1>begin, <2>1, Zenon DEF BeginCore, Copies, Acting, TypeOK
  <2>4. Drafts'
    BY <1>begin, Zenon DEF Drafts
  <2> QED BY <2>2, <2>3, <2>4, Zenon
<1>try. ASSUME NEW p \in Process, NEW t \in Status, TryTransition(p, t) PROVE BaseInv'
  <2>1. ent[p].status \in Status /\ Acting(p)
    BY <1>try, Zenon DEF TryTransition, Copies, Acting
  <2>2. CASE t \in Allowed[ent[p].status]
    BY <1>begin, <1>try, <2>1, <2>2, Zenon DEF TryTransition, TypeOK
  <2>3. CASE t \notin Allowed[ent[p].status]
    <3>1. Chain(ent[p].status, t) \in Seq(Status)
      BY <2>1, ChainType, Zenon
    <3>2. /\ CoreCall(Unset, 0, MaxTries, t, "chain") \in Call
          /\ CoreCall(Unset, 0, MaxTries, t, "chain").goal = t
          /\ CoreCall(Unset, 0, MaxTries, t, "chain").by = "chain"
      <4>1. 0 \in Version /\ MaxTries \in 1 .. MaxTries
        BY DEF MaxTries, Version
      <4> QED BY <4>1, CallType
    <3>3. /\ pc' = [pc EXCEPT ![p] = "chain"]
          /\ call' = [call EXCEPT ![p] = CoreCall(Unset, 0, MaxTries, t, "chain")]
          /\ rest' = [rest EXCEPT ![p] = Chain(ent[p].status, t)]
          /\ UNCHANGED <<row, lock, draft, ent, event>>
      BY <1>try, <2>3, Zenon DEF TryTransition
    <3>4. TypeOK'
      BY <3>1, <3>2, <3>3, Zenon DEF TypeOK
    <3>5. Copies'
      BY <2>1, <3>2, <3>3, Zenon DEF Copies, Acting, TypeOK
    <3>6. Drafts'
      BY <3>3, Zenon DEF Drafts
    <3> QED BY <3>4, <3>5, <3>6, Zenon
  <2> QED BY <2>2, <2>3, Zenon
<1>chain. ASSUME NEW p \in Process, ChainStep(p) PROVE BaseInv'
  <2>1. ent[p].status \in Status /\ Acting(p) /\ call[p].goal \in Status
    BY <1>chain, Zenon DEF ChainStep, Copies, Acting
  <2>2. rest' \in [Process -> Seq(Status)]
    <3>1. rest \in [Process -> Seq(Status)] /\ rest[p] \in Seq(Status)
      BY Zenon DEF TypeOK
    <3>2. rest[p] # <<>> => Tail(rest[p]) \in Seq(Status)
      BY <3>1
    <3>3. <<>> \in Seq(Status)
      OBVIOUS
    <3>4. \/ rest[p] # <<>> /\ rest' = [rest EXCEPT ![p] = Tail(rest[p])]
          \/ rest' = [rest EXCEPT ![p] = <<>>]
      BY <1>chain, Zenon DEF ChainStep
    <3> QED BY <3>1, <3>2, <3>3, <3>4, Zenon
  <2>3. UNCHANGED <<row, lock, draft, ent, event>>
    BY <1>chain, Zenon DEF ChainStep
  <2>4. CASE pc' = pc /\ call' = call
    BY <2>2, <2>3, <2>4, Zenon DEF TypeOK, Copies, Acting, Drafts
  <2>5. CASE /\ rest[p] # <<>>
             /\ Head(rest[p]) \in Allowed[ent[p].status]
             /\ BeginCore(p, Head(rest[p]), call[p].goal, "chain")
    <3>1. Head(rest[p]) \in Status
      BY <2>5 DEF TypeOK
    <3> QED BY <1>begin, <2>1, <2>2, <2>3, <2>5, <3>1, Zenon
  <2>6. CASE pc' = [pc EXCEPT ![p] = "holding"] /\ call' = call
    <3>1. TypeOK'
      BY <2>2, <2>3, <2>6, Zenon DEF TypeOK
    <3>2. Copies'
      BY <2>1, <2>3, <2>6, Zenon DEF Copies, Acting, TypeOK
    <3>3. Drafts'
      BY <2>3, Zenon DEF Drafts
    <3> QED BY <3>1, <3>2, <3>3, Zenon
  <2> QED BY <1>chain, <2>4, <2>5, <2>6, Zenon DEF ChainStep
<1>direct. ASSUME NEW p \in Process, NEW t \in Status,
                  CleanUp(p, t) \/ Reflect(p, t) \/ ManualResolve(p, t)
           PROVE  BaseInv'
  <2>1. Acting(p) /\ BeginCore(p, t, Unset, "other")
    BY <1>direct, Zenon DEF CleanUp, Reflect, ManualResolve, Acting
  <2>2. UNCHANGED <<row, lock, draft, ent, rest, event>>
    BY <1>direct, Zenon DEF CleanUp, Reflect, ManualResolve
  <2> QED BY <1>begin, <2>1, <2>2, Zenon DEF TypeOK
<1>write. ASSUME NEW p \in Process, NEW o \in Order, NEW st \in Status,
                 NEW v \in Version, v >= Visible(p, o).version,
                 Writable(p, o), Write(p, o, st, v)
          PROVE  /\ row' \in [Order -> Row]
                 /\ draft' \in [Order -> Row]
                 /\ lock' \in [Order -> Process \cup {NoOne}]
                 /\ Drafts'
  <2>1. [status |-> st, version |-> v] \in Row
    BY Zenon DEF Row
  <2>2. row' = row /\ draft' \in [Order -> Row]
        /\ lock' \in [Order -> Process \cup {NoOne}]
    BY <1>write, <2>1, Zenon DEF Write, TypeOK
  <2>3. v >= row[o].version
    <3>1. row[o].version \in Int /\ draft[o].version \in Int /\ v \in Int
      BY DEF TypeOK, Row, Version
    <3>2. Visible(p, o).version >= row[o].version
      BY <3>1 DEF Visible, Drafts
    <3> QED BY <1>write, <3>1, <3>2 DEF Visible
  <2>4. lock'[o] # NoOne
    BY <1>write, Zenon DEF Write, TypeOK
  <2>5. Drafts'
    <3> SUFFICES ASSUME NEW x \in Order
                 PROVE  /\ lock'[x] = NoOne => draft'[x] = row'[x]
                        /\ draft'[x].version >= row'[x].version
      BY Zenon DEF Drafts
    <3>1. CASE x = o
      <4>1. draft'[o] = [status |-> st, version |-> v]
        BY <1>write, Zenon DEF Write, TypeOK
      <4> QED BY <2>2, <2>3, <2>4, <3>1, <4>1
    <3>2. CASE x # o
      <4>1. draft'[x] = draft[x] /\ lock'[x] = lock[x]
        BY <1>write, <3>2, Zenon DEF Write, TypeOK
      <4> QED BY <2>2, <4>1, Zenon DEF Drafts
    <3> QED BY <3>1, <3>2, Zenon
  <2>6. row' \in [Order -> Row]
    BY <2>2, Zenon DEF TypeOK
  <2> QED BY <2>2, <2>5, <2>6, Zenon
<1>apply. ASSUME NEW p \in Process, Apply(p) PROVE BaseInv'
  <2> DEFINE o == ent[p].order
  <2>1. /\ o \in Order /\ ent[p].status \in Status /\ call[p].target \in Status
        /\ call[p].by # "other" => call[p].goal \in Status
    BY <1>apply, Zenon DEF Apply, Copies, Acting
  <2>2. call[p].version \in Version
    BY Zenon DEF TypeOK, Call
  <2>3. call[p].version + 1 \in Version /\ call[p].version + 1 >= call[p].version
    BY <1>apply, <2>2 DEF Apply, Version
  <2>4. /\ row' \in [Order -> Row] /\ draft' \in [Order -> Row]
        /\ lock' \in [Order -> Process \cup {NoOne}] /\ Drafts'
    BY <1>apply, <1>write, <2>1, <2>3, Zenon DEF Apply
  <2>5. /\ ent' = [ent EXCEPT ![p] = [order |-> o, status |-> call[p].target,
                                      version |-> call[p].version]]
        /\ pc' \in [Process -> {"idle", "open", "holding", "chain", "update"}]
        /\ \A q \in Process : q # p => pc'[q] = pc[q]
        /\ pc'[p] \in {"holding", "chain"}
        /\ pc'[p] = "chain" => call[p].by # "other"
        /\ call' = call /\ rest' = rest
    BY <1>apply, Zenon DEF Apply, TypeOK
  <2>6. ent' \in [Process -> Entity] /\ ent'[p].order = o /\ ent'[p].status \in Status
        /\ \A q \in Process : q # p => ent'[q] = ent[q]
    BY <2>1, <2>2, <2>5, Zenon DEF TypeOK, Entity
  <2>7. event' \in [Order -> Event]
    <3>1. Visible(p, o) \in Row
      BY <2>1, VisibleType, Zenon
    <3>2. [from |-> ent[p].status, over |-> Visible(p, o).status] \in Event
      BY <2>1, <3>1, Zenon DEF Event, Row
    <3> QED BY <1>apply, <3>2, Zenon DEF Apply, TypeOK
  <2>8. TypeOK'
    BY <2>4, <2>5, <2>6, <2>7, Zenon DEF TypeOK
  <2>9. Copies'
    BY <2>1, <2>2, <2>5, <2>6 DEF Copies, Acting
  <2> QED BY <2>4, <2>8, <2>9, Zenon
<1>conflict. ASSUME NEW p \in Process, Conflict(p) PROVE BaseInv'
  <2>1. /\ ent[p].order \in Order /\ ent[p].status \in Status
        /\ call[p].target \in Status /\ pc[p] = "update"
        /\ call[p].by # "other" => call[p].goal \in Status
    BY <1>conflict, Zenon DEF Conflict, Copies, Acting
  <2>2. UNCHANGED <<row, lock, draft, ent, event>>
    BY <1>conflict, Zenon DEF Conflict
  <2>3. CASE Fail(p) /\ UNCHANGED call
    <3>1. CASE call[p].by = "direct"
      <4>1. Chain(ent[p].status, call[p].goal) \in Seq(Status)
        BY <2>1, <3>1, ChainType, Zenon
      <4>2. TypeOK'
        <5>1. /\ pc' = [pc EXCEPT ![p] = "chain"] /\ call' = call
              /\ rest' = [rest EXCEPT ![p] = Chain(ent[p].status, call[p].goal)]
          BY <2>3, <3>1, Zenon DEF Fail
        <5>2. pc' \in [Process -> {"idle", "open", "holding", "chain", "update"}]
          BY <5>1, Zenon DEF TypeOK
        <5>3. rest' \in [Process -> Seq(Status)]
          BY <4>1, <5>1, Zenon DEF TypeOK
        <5> QED BY <2>2, <5>1, <5>2, <5>3, Zenon DEF TypeOK
      <4>3. Copies'
        BY <2>1, <2>2, <2>3, <3>1, Zenon DEF Fail, Copies, Acting, TypeOK
      <4> QED BY <2>2, <4>2, <4>3, Zenon DEF Drafts
    <3>2. CASE call[p].by # "direct"
      <4>1. TypeOK'
        <5>1. /\ pc' = [pc EXCEPT ![p] = "holding"] /\ call' = call
              /\ rest' = [rest EXCEPT ![p] = <<>>]
          BY <2>3, <3>2, Zenon DEF Fail
        <5>2. <<>> \in Seq(Status)
          OBVIOUS
        <5> QED BY <2>2, <5>1, <5>2, Zenon DEF TypeOK
      <4>2. Copies'
        <5>1. pc' = [pc EXCEPT ![p] = "holding"] /\ call' = call
          BY <2>3, <3>2, Zenon DEF Fail
        <5> QED BY <2>1, <2>2, <5>1, Zenon DEF Copies, Acting, TypeOK
      <4> QED BY <2>2, <4>1, <4>2 DEF Drafts
    <3> QED BY <3>1, <3>2, Zenon
  <2>4. CASE /\ call[p].tries > 1
             /\ call' = [call EXCEPT ![p] =
                             CoreCall(call[p].target, Visible(p, ent[p].order).version,
                                      call[p].tries - 1, call[p].goal, call[p].by)]
             /\ UNCHANGED <<pc, rest>>
    <3>1. Visible(p, ent[p].order).version \in Version
      BY <2>1, VisibleType, Zenon DEF Row
    <3>2. /\ call[p].tries \in 1 .. MaxTries /\ call[p].goal \in Status \cup {Unset}
          /\ call[p].by \in {"direct", "chain", "other"}
      BY Zenon DEF TypeOK, Call
    <3>3. call[p].tries - 1 \in 1 .. MaxTries
      BY <2>4, <3>2 DEF MaxTries
    <3>4. /\ call' \in [Process -> Call]
          /\ call'[p].target = call[p].target /\ call'[p].goal = call[p].goal
          /\ call'[p].by = call[p].by
          /\ \A q \in Process : q # p => call'[q] = call[q]
      BY <2>1, <2>4, <3>1, <3>2, <3>3, CallType DEF TypeOK
    <3>5. TypeOK'
      BY <2>2, <2>4, <3>4, Zenon DEF TypeOK
    <3>6. Copies'
      BY <2>2, <2>4, <3>4, Zenon DEF Copies, Acting
    <3> QED BY <2>2, <3>5, <3>6 DEF Drafts
  <2> QED BY <1>conflict, <2>3, <2>4, Zenon DEF Conflict
<1>fallback. ASSUME NEW p \in Process, Fallback(p) PROVE BaseInv'
  <2> DEFINE o == ent[p].order
  <2>1. o \in Order /\ ent[p].version \in Version
    BY <1>fallback, Zenon DEF Fallback, Copies, Acting, TypeOK, Entity
  <2>2. NoEntity \in Entity
    BY DEF NoEntity, Entity, Version
  <2>3. /\ row' \in [Order -> Row] /\ draft' \in [Order -> Row]
        /\ lock' \in [Order -> Process \cup {NoOne}] /\ Drafts'
    <3>1. CASE UNCHANGED <<row, lock, draft>>
      BY <3>1, Zenon DEF TypeOK, Drafts
    <3>2. CASE /\ Visible(p, o).version = ent[p].version
               /\ Writable(p, o)
               /\ ent[p].version < MaxVersion
               /\ Write(p, o, "expired", ent[p].version + 1)
      <4>1. /\ ent[p].version + 1 \in Version /\ ent[p].version + 1 >= ent[p].version
            /\ "expired" \in Status
        BY <2>1, <3>2 DEF Version, Status
      <4> QED BY <1>write, <2>1, <3>2, <4>1, Zenon
    <3> QED BY <1>fallback, <3>1, <3>2, Zenon DEF Fallback
  <2>4. /\ pc' = [pc EXCEPT ![p] = "open"] /\ ent' = [ent EXCEPT ![p] = NoEntity]
        /\ UNCHANGED <<call, rest, event>>
    BY <1>fallback, Zenon DEF Fallback
  <2>5. TypeOK'
    BY <2>2, <2>3, <2>4, Zenon DEF TypeOK
  <2>6. Copies'
    BY <2>4, Zenon DEF Copies, Acting, TypeOK
  <2> QED BY <2>3, <2>5, <2>6
<1>annotate. ASSUME NEW p \in Process, Annotate(p) PROVE BaseInv'
  <2> DEFINE o == ent[p].order
  <2>1. o \in Order /\ ent[p].status \in Status
    BY <1>annotate, Zenon DEF Annotate, Copies, Acting
  <2>2. /\ Visible(p, o).version \in Version
        /\ Visible(p, o).version >= Visible(p, o).version
    BY <2>1, VisibleType DEF Row, Version
  <2>3. /\ row' \in [Order -> Row] /\ draft' \in [Order -> Row]
        /\ lock' \in [Order -> Process \cup {NoOne}] /\ Drafts'
    BY <1>annotate, <1>write, <2>1, <2>2, Zenon DEF Annotate
  <2>4. UNCHANGED <<pc, ent, call, rest, event>>
    BY <1>annotate, Zenon DEF Annotate
  <2> QED BY <2>3, <2>4, Zenon DEF TypeOK, Copies, Acting
<1>end. ASSUME NEW p \in Process, End(p), draft' \in [Order -> Row],
               event' \in [Order -> Event], row' \in [Order -> Row], Drafts'
        PROVE  BaseInv'
  <2>1. NoEntity \in Entity /\ NoCall \in Call /\ <<>> \in Seq(Status)
        /\ NoCall.by = "other"
    BY NoCallType DEF NoEntity, Entity, Version
  <2>2. TypeOK'
    BY <1>end, <2>1, Zenon DEF End, TypeOK
  <2>3. Copies'
    BY <1>end, <2>1, Zenon DEF End, Copies, Acting, TypeOK
  <2> QED BY <1>end, <2>2, <2>3, Zenon
<1>commit. ASSUME NEW p \in Process, Commit(p) PROVE BaseInv'
  <2>1. \A o \in Order : row'[o] = Visible(p, o) /\ draft'[o] = draft[o]
                         /\ lock'[o] = IF lock[o] = p THEN NoOne ELSE lock[o]
    BY <1>commit, Zenon DEF Commit, End
  <2>2. row' \in [Order -> Row]
    BY <1>commit, VisibleType, Zenon DEF Commit
  <2>3. Drafts'
    <3> SUFFICES ASSUME NEW o \in Order
                 PROVE  /\ lock'[o] = NoOne => draft'[o] = row'[o]
                        /\ draft'[o].version >= row'[o].version
      BY Zenon DEF Drafts
    <3>1. draft[o].version \in Int
      BY DEF TypeOK, Row, Version
    <3>2. CASE lock[o] = p
      BY <2>1, <3>1, <3>2 DEF Visible
    <3>3. CASE lock[o] # p
      BY <2>1, <3>3, Zenon DEF Visible, Drafts
    <3> QED BY <3>2, <3>3, Zenon
  <2> QED BY <1>commit, <1>end, <2>2, <2>3, Zenon DEF Commit, TypeOK
<1>rollback. ASSUME NEW p \in Process, Rollback(p) PROVE BaseInv'
  <2>1. /\ draft' = [o \in Order |-> IF lock[o] = p THEN row[o] ELSE draft[o]]
        /\ event' = [o \in Order |-> IF lock[o] = p THEN NoEvent ELSE event[o]]
        /\ lock' = [o \in Order |-> IF lock[o] = p THEN NoOne ELSE lock[o]]
        /\ row' = row
    BY <1>rollback, Zenon DEF Rollback, End
  <2>2. NoEvent \in Event
    BY Zenon DEF NoEvent, Event
  <2>3. draft' \in [Order -> Row] /\ event' \in [Order -> Event] /\ row' \in [Order -> Row]
    BY <2>1, <2>2, Zenon DEF TypeOK
  <2>4. Drafts'
    <3> SUFFICES ASSUME NEW o \in Order
                 PROVE  /\ lock'[o] = NoOne => draft'[o] = row'[o]
                        /\ draft'[o].version >= row'[o].version
      BY DEF Drafts
    <3>1. row[o].version \in Int
      BY DEF TypeOK, Row, Version
    <3> QED BY <2>1, <3>1 DEF Drafts
  <2> QED BY <1>rollback, <1>end, <2>3, <2>4, Zenon DEF Rollback
<1>stutter. CASE UNCHANGED vars
  BY <1>stutter, Zenon DEF vars, TypeOK, Copies, Acting, Drafts
<1> QED
  BY <1>load, <1>try, <1>chain, <1>direct, <1>apply, <1>conflict, <1>fallback,
     <1>annotate, <1>commit, <1>rollback, <1>stutter, Zenon DEF Next

(* The type invariant holds in every instance.                               *)
THEOREM TypeCorrect == Spec => []TypeOK
<1>1. Init => BaseInv
  BY BaseInit, Zenon
<1>2. BaseInv /\ [Next]_vars => BaseInv'
  BY BaseStep, Zenon
<1>3. BaseInv => TypeOK
  BY Zenon DEF BaseInv
<1> QED BY <1>1, <1>2, <1>3, PTL DEF Spec

LEMMA RowSteps ==
    ASSUME [Next]_vars
    PROVE  row' = row \/ \E p \in Process : Commit(p)
<1>1. ASSUME NEW p \in Process, Apply(p) PROVE row' = row
  BY <1>1, Zenon DEF Apply, Write
<1>2. ASSUME NEW p \in Process, Fallback(p) \/ Annotate(p) PROVE row' = row
  BY <1>2, Zenon DEF Fallback, Annotate, Write
<1>3. ASSUME NEW p \in Process, ChainStep(p) \/ Conflict(p) \/ Rollback(p)
      PROVE  row' = row
  BY <1>3, Zenon DEF ChainStep, Conflict, Rollback
<1>4. ASSUME NEW p \in Process, NEW t \in Status,
             \/ TryTransition(p, t) \/ CleanUp(p, t)
             \/ Reflect(p, t) \/ ManualResolve(p, t)
      PROVE  row' = row
  BY <1>4, Zenon DEF TryTransition, CleanUp, Reflect, ManualResolve
<1>5. ASSUME NEW p \in Process, NEW o \in Order, Load(p, o) PROVE row' = row
  BY <1>5, Zenon DEF Load
<1>6. CASE UNCHANGED vars
  BY <1>6, Zenon DEF vars
<1> QED BY <1>1, <1>2, <1>3, <1>4, <1>5, <1>6, Zenon DEF Next

(* With every writer, the worker's and the annotations included, no commit   *)
(* lowers the version of a row.                                              *)
THEOREM VersionsOnlyGrow == Spec => VersionsGrow
<1>1. BaseInv /\ [Next]_vars =>
          [\A o \in Order : row'[o].version >= row[o].version]_vars
  <2> SUFFICES ASSUME BaseInv, [Next]_vars, NEW o \in Order
               PROVE  row'[o].version >= row[o].version
    OBVIOUS
  <2>1. row[o].version \in Int
    BY DEF BaseInv, TypeOK, Row, Version
  <2>2. CASE row' = row
    BY <2>1, <2>2
  <2>3. ASSUME NEW p \in Process, Commit(p) PROVE row'[o].version >= row[o].version
    <3>1. row'[o] = Visible(p, o)
      BY <2>3, Zenon DEF Commit
    <3> QED BY <2>1, <3>1 DEF Visible, BaseInv, Drafts
  <2> QED BY <2>2, <2>3, RowSteps, Zenon
<1> QED BY <1>1, BaseInit, BaseStep, PTL DEF Spec, VersionsGrow

-----------------------------------------------------------------------------
(***************************************************************************)
(* What the compare-and-set adds when every status goes through            *)
(* OrderManager.  A copy is never newer than the row its holder sees, and  *)
(* a copy of the same version has the same status.  A call whose version   *)
(* still matches was validated against exactly that row, by its caller or  *)
(* by the terminal check of the retry.                                     *)
(***************************************************************************)
Pending ==
    \A o \in Order :
        lock[o] # NoOne => /\ row[o].status \notin Final
                           /\ draft[o].version > row[o].version

Seen(p) == Visible(p, ent[p].order)

FreshCopy(p) ==
    Acting(p) => /\ ent[p].version <= Seen(p).version
                 /\ ent[p].version = Seen(p).version => ent[p].status = Seen(p).status

PermittedCall(p) ==
    pc[p] = "update" =>
        /\ call[p].version <= Seen(p).version
        /\ call[p].version = Seen(p).version =>
               /\ Seen(p).status \notin Final
               /\ Seen(p).status = "expired" => call[p].target \in Allowed["expired"]

ManagerInv == Pending /\ \A p \in Process : FreshCopy(p) /\ PermittedCall(p)

LEMMA ManagerInit == Init => ManagerInv
<1> SUFFICES ASSUME Init PROVE ManagerInv
  OBVIOUS
<1>1. Pending
  BY Zenon DEF Init, Pending
<1>2. \A p \in Process : FreshCopy(p) /\ PermittedCall(p)
  BY Zenon DEF Init, FreshCopy, PermittedCall, Acting
<1> QED BY <1>1, <1>2, Zenon DEF ManagerInv

\* What a process sees of a row stays, or gets a higher version, as long as its
\* own transaction lasts.
LEMMA SeenMoves ==
    ASSUME BaseInv, Pending, ManagerOnly, [Next]_vars,
           NEW p \in Process, NEW o \in Order, pc'[p] # "idle"
    PROVE  \/ Visible(p, o)' = Visible(p, o)
           \/ Visible(p, o)'.version > Visible(p, o).version
<1> USE LifecycleAssumption
<1>0. p # NoOne /\ BaseInv
  OBVIOUS
<1>1. CASE UNCHANGED <<row, lock, draft>>
  BY <1>1, Zenon DEF Visible
<1>2. ASSUME NEW q \in Process, Apply(q) PROVE
             \/ Visible(p, o)' = Visible(p, o)
             \/ Visible(p, o)'.version > Visible(p, o).version
  <2> DEFINE x == ent[q].order
             v == call[q].version
  <2>1. /\ x \in Order /\ Writable(q, x) /\ Visible(q, x).version = v
        /\ draft' = [draft EXCEPT ![x] = [status |-> call[q].target, version |-> v + 1]]
        /\ lock' = [lock EXCEPT ![x] = q]
        /\ row' = row /\ v \in Int
    BY <1>2 DEF Apply, Write, BaseInv, Copies, Acting, TypeOK, Call, Version
  <2>2. draft \in [Order -> Row] /\ lock \in [Order -> Process \cup {NoOne}]
    BY Zenon DEF BaseInv, TypeOK
  <2>3. CASE o # x
    BY <2>1, <2>2, <2>3, Zenon DEF Visible
  <2>4. CASE o = x /\ p # q
    BY <1>0, <2>1, <2>2, <2>4, Zenon DEF Visible, Writable
  <2>5. CASE o = x /\ p = q
    <3>1. Visible(p, o)' = [status |-> call[q].target, version |-> v + 1]
      BY <2>1, <2>2, <2>5, Zenon DEF Visible
    <3> QED BY <2>1, <2>5, <3>1
  <2> QED BY <2>3, <2>4, <2>5, Zenon
<1>3. ASSUME NEW q \in Process, Commit(q) PROVE
             \/ Visible(p, o)' = Visible(p, o)
             \/ Visible(p, o)'.version > Visible(p, o).version
  <2>1. /\ row'[o] = Visible(q, o) /\ draft' = draft
        /\ lock'[o] = IF lock[o] = q THEN NoOne ELSE lock[o]
        /\ pc' = [pc EXCEPT ![q] = "idle"]
    BY <1>3, Zenon DEF Commit, End
  <2>2. p # q
    BY <2>1, Zenon DEF BaseInv, TypeOK
  <2> QED BY <1>0, <2>1, <2>2, Zenon DEF Visible, Pending
<1>4. ASSUME NEW q \in Process, Rollback(q) PROVE Visible(p, o)' = Visible(p, o)
  <2>1. /\ row' = row /\ draft'[o] = IF lock[o] = q THEN row[o] ELSE draft[o]
        /\ lock'[o] = IF lock[o] = q THEN NoOne ELSE lock[o]
        /\ pc' = [pc EXCEPT ![q] = "idle"]
    BY <1>4, Zenon DEF Rollback, End
  <2>2. p # q
    BY <2>1, Zenon DEF BaseInv, TypeOK
  <2> QED BY <1>0, <2>1, <2>2, Zenon DEF Visible
<1>5. ASSUME NEW q \in Process, Fallback(q) \/ Annotate(q) PROVE FALSE
  BY <1>5, Zenon DEF Fallback, Annotate, ManagerOnly
<1>6. ASSUME NEW q \in Process, ChainStep(q) \/ Conflict(q)
      PROVE  UNCHANGED <<row, lock, draft>>
  BY <1>6, Zenon DEF ChainStep, Conflict
<1>7. ASSUME NEW q \in Process, NEW t \in Status,
             \/ TryTransition(q, t) \/ CleanUp(q, t)
             \/ Reflect(q, t) \/ ManualResolve(q, t)
      PROVE  UNCHANGED <<row, lock, draft>>
  BY <1>7, Zenon DEF TryTransition, CleanUp, Reflect, ManualResolve
<1>8. ASSUME NEW q \in Process, NEW x \in Order, Load(q, x)
      PROVE  UNCHANGED <<row, lock, draft>>
  BY <1>8, Zenon DEF Load
<1>9. CASE UNCHANGED vars
  BY <1>1, <1>9, Zenon DEF vars
<1> QED BY <1>1, <1>2, <1>3, <1>4, <1>5, <1>6, <1>7, <1>8, <1>9, Zenon DEF Next

LEMMA PendingStep ==
    ASSUME BaseInv, ManagerInv, ManagerOnly, [Next]_vars
    PROVE  Pending'
<1> USE LifecycleAssumption
<1>0. BaseInv /\ Pending
  BY Zenon DEF ManagerInv
<1>1. CASE UNCHANGED <<row, lock, draft>>
  BY <1>0, <1>1, Zenon DEF Pending
<1>2. ASSUME NEW q \in Process, Apply(q) PROVE Pending'
  <2> DEFINE x == ent[q].order
             v == call[q].version
  <2>1. /\ x \in Order /\ Writable(q, x) /\ Visible(q, x).version = v
        /\ draft' = [draft EXCEPT ![x] = [status |-> call[q].target, version |-> v + 1]]
        /\ lock' = [lock EXCEPT ![x] = q]
        /\ row' = row /\ v \in Int /\ pc[q] = "update"
    BY <1>2 DEF Apply, Write, BaseInv, Copies, Acting, TypeOK, Call, Version
  <2>2. /\ draft \in [Order -> Row] /\ lock \in [Order -> Process \cup {NoOne}]
        /\ row[x].version \in Int /\ draft[x].version \in Int
    BY <2>1 DEF BaseInv, TypeOK, Row, Version
  <2>3. Visible(q, x).status \notin Final
    BY <2>1, Zenon DEF ManagerInv, PermittedCall, Seen
  <2> SUFFICES ASSUME NEW o \in Order, lock'[o] # NoOne
               PROVE  row'[o].status \notin Final /\ draft'[o].version > row'[o].version
    BY Zenon DEF Pending
  <2>4. CASE o # x
    BY <1>0, <2>1, <2>2, <2>4, Zenon DEF Pending
  <2>5. CASE o = x
    <3>1. draft'[o] = [status |-> call[q].target, version |-> v + 1] /\ row'[o] = row[o]
      BY <2>1, <2>2, <2>5, Zenon
    <3>2. CASE lock[x] = q
      BY <1>0, <2>1, <2>2, <2>5, <3>1, <3>2 DEF Pending, Visible
    <3>3. CASE lock[x] # q
      BY <2>1, <2>2, <2>3, <2>5, <3>1, <3>3 DEF Visible
    <3> QED BY <3>2, <3>3, Zenon
  <2> QED BY <2>4, <2>5, Zenon
<1>3. ASSUME NEW q \in Process, Commit(q) \/ Rollback(q) PROVE Pending'
  <2> SUFFICES ASSUME NEW o \in Order, lock'[o] # NoOne
               PROVE  row'[o].status \notin Final /\ draft'[o].version > row'[o].version
    BY DEF Pending
  <2>1. lock'[o] = lock[o] /\ lock[o] # q /\ lock[o] # NoOne
    BY <1>3, Zenon DEF Commit, Rollback, End
  <2>2. row'[o] = row[o] /\ draft'[o] = draft[o]
    BY <1>3, <2>1, Zenon DEF Commit, Rollback, Visible
  <2> QED BY <1>0, <2>1, <2>2, Zenon DEF Pending
<1>5. ASSUME NEW q \in Process, Fallback(q) \/ Annotate(q) PROVE FALSE
  BY <1>5, Zenon DEF Fallback, Annotate, ManagerOnly
<1>6. ASSUME NEW q \in Process, ChainStep(q) \/ Conflict(q)
      PROVE  UNCHANGED <<row, lock, draft>>
  BY <1>6, Zenon DEF ChainStep, Conflict
<1>7. ASSUME NEW q \in Process, NEW t \in Status,
             \/ TryTransition(q, t) \/ CleanUp(q, t)
             \/ Reflect(q, t) \/ ManualResolve(q, t)
      PROVE  UNCHANGED <<row, lock, draft>>
  BY <1>7, Zenon DEF TryTransition, CleanUp, Reflect, ManualResolve
<1>8. ASSUME NEW q \in Process, NEW x \in Order, Load(q, x)
      PROVE  UNCHANGED <<row, lock, draft>>
  BY <1>8, Zenon DEF Load
<1>9. CASE UNCHANGED vars
  BY <1>1, <1>9, Zenon DEF vars
<1> QED BY <1>1, <1>2, <1>3, <1>5, <1>6, <1>7, <1>8, <1>9, Zenon DEF Next

LEMMA CopiesStep ==
    ASSUME BaseInv, ManagerInv, ManagerOnly, [Next]_vars, NEW r \in Process
    PROVE  FreshCopy(r)' /\ PermittedCall(r)'
<1> USE LifecycleAssumption
<1>0. BaseInv /\ Pending /\ FreshCopy(r) /\ PermittedCall(r) /\ BaseInv'
  BY BaseStep, Zenon DEF ManagerInv
<1>types. Acting(r) => /\ ent[r].order \in Order /\ ent[r].status \in Status
                       /\ ent[r].version \in Int /\ call[r].version \in Int
                       /\ Seen(r).version \in Int
  <2> SUFFICES ASSUME Acting(r)
               PROVE  /\ ent[r].order \in Order /\ ent[r].status \in Status
                      /\ ent[r].version \in Int /\ call[r].version \in Int
                      /\ Seen(r).version \in Int
    OBVIOUS
  <2>1. ent[r].order \in Order /\ ent[r].status \in Status
    BY Zenon DEF BaseInv, Copies
  <2>2. Visible(r, ent[r].order) \in Row
    BY <2>1, VisibleType, Zenon DEF BaseInv
  <2> QED BY <2>1, <2>2 DEF Seen, BaseInv, TypeOK, Row, Version, Entity, Call
<1>moves. ASSUME Acting(r), ent'[r].order = ent[r].order, pc'[r] # "idle"
          PROVE  Seen(r)' = Seen(r) \/ Seen(r)'.version > Seen(r).version
  <2>1. PICK o \in Order : o = ent[r].order
    BY <1>moves, <1>types, Zenon
  <2>2. Seen(r) = Visible(r, o) /\ Seen(r)' = Visible(r, o)'
    BY <1>moves, <2>1, Zenon DEF Seen, Visible
  <2> QED BY <1>0, <1>moves, <2>2, SeenMoves, Zenon
<1>seen. Acting(r)' => Seen(r)'.version \in Int
  <2> SUFFICES ASSUME Acting(r)' PROVE Seen(r)'.version \in Int
    OBVIOUS
  <2>1. ent'[r].order \in Order
    BY <1>0, Zenon DEF BaseInv, Copies
  <2> QED BY <1>0, <2>1 DEF Seen, Visible, BaseInv, TypeOK, Row, Version
<1>fresh. ASSUME Acting(r), ent'[r] = ent[r], pc'[r] # "idle"
          PROVE  FreshCopy(r)'
  <2> SUFFICES ASSUME Acting(r)' PROVE FreshCopy(r)'
    BY Zenon DEF FreshCopy
  <2>1. Seen(r)' = Seen(r) \/ Seen(r)'.version > Seen(r).version
    BY <1>fresh, <1>moves, Zenon
  <2> QED BY <1>0, <1>fresh, <1>types, <1>seen, <2>1 DEF FreshCopy
<1>kept. ASSUME pc'[r] = pc[r], ent'[r] = ent[r], call'[r] = call[r]
         PROVE  FreshCopy(r)' /\ PermittedCall(r)'
  <2>1. CASE ~Acting(r)
    BY <1>kept, <2>1, Zenon DEF FreshCopy, PermittedCall, Acting
  <2>2. CASE Acting(r)
    <3>1. Acting(r)' /\ pc'[r] # "idle"
      BY <1>kept, <2>2, Zenon DEF Acting
    <3>2. FreshCopy(r)'
      BY <1>fresh, <1>kept, <2>2, <3>1, Zenon
    <3>3. Seen(r)' = Seen(r) \/ Seen(r)'.version > Seen(r).version
      BY <1>kept, <1>moves, <2>2, <3>1, Zenon
    <3>4. PermittedCall(r)'
      BY <1>0, <1>kept, <1>types, <1>seen, <2>2, <3>1, <3>3 DEF PermittedCall
    <3> QED BY <3>2, <3>4, Zenon
  <2> QED BY <2>1, <2>2, Zenon
<1>begin. ASSUME NEW t, NEW g, NEW by, Acting(r), BeginCore(r, t, g, by),
                 UNCHANGED <<row, lock, draft, ent>>,
                 ent[r].status \notin Final,
                 ent[r].status = "expired" => t \in Allowed["expired"]
          PROVE  FreshCopy(r)' /\ PermittedCall(r)'
  <2>1. pc'[r] = "update" /\ call'[r].version = ent[r].version /\ call'[r].target = t
    BY <1>begin, Zenon DEF BeginCore, CoreCall, BaseInv, TypeOK
  <2>2. Seen(r)' = Seen(r)
    BY <1>begin, Zenon DEF Seen, Visible
  <2>3. FreshCopy(r)'
    BY <1>begin, <1>fresh, <2>1, Zenon
  <2>4. PermittedCall(r)'
    BY <1>0, <1>begin, <1>types, <2>1, <2>2, Zenon DEF PermittedCall, FreshCopy
  <2> QED BY <2>3, <2>4
<1>other. ASSUME NEW q \in Process, q # r,
                 \/ \E o \in Order : Load(q, o)
                 \/ \E t \in Status : \/ TryTransition(q, t) \/ CleanUp(q, t)
                                      \/ Reflect(q, t) \/ ManualResolve(q, t)
                 \/ ChainStep(q) \/ Apply(q) \/ Conflict(q)
                 \/ Commit(q) \/ Rollback(q)
          PROVE  FreshCopy(r)' /\ PermittedCall(r)'
  <2>1. pc'[r] = pc[r] /\ ent'[r] = ent[r] /\ call'[r] = call[r]
    BY <1>other, Zenon DEF Load, TryTransition, BeginCore, CleanUp, Reflect, ManualResolve,
                    ChainStep, Apply, Conflict, Fail, Commit, Rollback, End,
                    BaseInv, TypeOK
  <2> QED BY <1>kept, <2>1, Zenon
<1>load. ASSUME NEW o \in Order, Load(r, o) PROVE FreshCopy(r)' /\ PermittedCall(r)'
  <2>1. /\ pc'[r] = "holding" /\ ent'[r].order = o
        /\ ent'[r].status = Visible(r, o).status
        /\ ent'[r].version = Visible(r, o).version
        /\ UNCHANGED <<row, lock, draft>>
    BY <1>load, Zenon DEF Load, BaseInv, TypeOK
  <2>2. Visible(r, o).version \in Int
    BY VisibleType DEF BaseInv, Row, Version
  <2>3. Seen(r)' = Visible(r, o)
    BY <2>1, Zenon DEF Seen, Visible
  <2> QED BY <2>1, <2>2, <2>3 DEF FreshCopy, PermittedCall
<1>try. ASSUME NEW t \in Status, TryTransition(r, t)
        PROVE  FreshCopy(r)' /\ PermittedCall(r)'
  <2>1. Acting(r) /\ UNCHANGED <<row, lock, draft, ent>>
    BY <1>try, Zenon DEF TryTransition, Acting
  <2>2. CASE t \in Allowed[ent[r].status]
    BY <1>begin, <1>try, <1>types, <2>1, <2>2, FinalFacts, Zenon DEF TryTransition
  <2>3. CASE t \notin Allowed[ent[r].status]
    <3>1. pc'[r] = "chain"
      BY <1>try, <2>3, Zenon DEF TryTransition, BaseInv, TypeOK
    <3> QED BY <1>fresh, <2>1, <3>1, Zenon DEF PermittedCall
  <2> QED BY <2>2, <2>3, Zenon
<1>chain. ASSUME ChainStep(r) PROVE FreshCopy(r)' /\ PermittedCall(r)'
  <2>1. Acting(r) /\ pc[r] = "chain" /\ UNCHANGED <<row, lock, draft, ent>>
    BY <1>chain, Zenon DEF ChainStep, Acting
  <2>2. CASE UNCHANGED <<pc, call>>
    BY <1>kept, <2>1, <2>2, Zenon
  <2>3. CASE /\ Head(rest[r]) \in Allowed[ent[r].status]
             /\ BeginCore(r, Head(rest[r]), call[r].goal, "chain")
    BY <1>begin, <1>types, <2>1, <2>3, FinalFacts, Zenon
  <2>4. CASE pc' = [pc EXCEPT ![r] = "holding"]
    <3>1. pc'[r] = "holding"
      BY <2>4, Zenon DEF BaseInv, TypeOK
    <3> QED BY <1>fresh, <2>1, <3>1, Zenon DEF PermittedCall
  <2> QED BY <1>chain, <2>2, <2>3, <2>4, Zenon DEF ChainStep
<1>direct. ASSUME NEW t \in Status,
                  CleanUp(r, t) \/ Reflect(r, t) \/ ManualResolve(r, t)
           PROVE  FreshCopy(r)' /\ PermittedCall(r)'
  <2>1. /\ Acting(r) /\ UNCHANGED <<row, lock, draft, ent>>
        /\ BeginCore(r, t, Unset, "other")
    BY <1>direct, Zenon DEF CleanUp, Reflect, ManualResolve, Acting
  <2>2. ent[r].status \notin {"filled", "cancelled", "rejected", "expired"}
    BY <1>direct, Zenon DEF CleanUp, Reflect, ManualResolve, Terminal
  <2> QED BY <1>begin, <2>1, <2>2, FinalFacts, Zenon
<1>apply. ASSUME Apply(r) PROVE FreshCopy(r)' /\ PermittedCall(r)'
  <2> DEFINE x == ent[r].order
             v == call[r].version
  <2>1. /\ x \in Order /\ v \in Int
        /\ draft' = [draft EXCEPT ![x] = [status |-> call[r].target, version |-> v + 1]]
        /\ lock' = [lock EXCEPT ![x] = r]
        /\ ent'[r].order = x /\ ent'[r].version = v
        /\ pc'[r] \in {"holding", "chain"}
    BY <1>apply DEF Apply, Write, BaseInv, Copies, Acting, TypeOK, Call, Version
  <2>2. Seen(r)' = [status |-> call[r].target, version |-> v + 1]
    BY <2>1, Zenon DEF Seen, Visible, BaseInv, TypeOK
  <2> QED BY <2>1, <2>2 DEF FreshCopy, PermittedCall
<1>conflict. ASSUME Conflict(r) PROVE FreshCopy(r)' /\ PermittedCall(r)'
  <2>1. Acting(r) /\ pc[r] = "update" /\ UNCHANGED <<row, lock, draft, ent>>
    BY <1>conflict, Zenon DEF Conflict, Acting
  <2>2. CASE Fail(r)
    <3>1. pc'[r] \in {"chain", "holding"}
      BY <2>2, Zenon DEF Fail, BaseInv, TypeOK
    <3> QED BY <1>fresh, <2>1, <3>1, Zenon DEF PermittedCall
  <2>3. CASE /\ Seen(r).status \notin Terminal
             /\ call' = [call EXCEPT ![r] =
                             CoreCall(call[r].target, Seen(r).version,
                                      call[r].tries - 1, call[r].goal, call[r].by)]
             /\ UNCHANGED pc
    <3>1. call'[r].version = Seen(r).version /\ Seen(r)' = Seen(r)
      BY <2>1, <2>3, Zenon DEF CoreCall, Seen, Visible, BaseInv, TypeOK
    <3>2. Seen(r).status \notin Final /\ Seen(r).status # "expired"
      BY <2>3, FinalFacts, Zenon DEF Terminal
    <3>3. PermittedCall(r)'
      BY <1>types, <2>1, <3>1, <3>2 DEF PermittedCall
    <3> QED BY <1>fresh, <2>1, <2>3, <3>3, Zenon
  <2> QED BY <1>conflict, <2>2, <2>3, Zenon DEF Conflict, Seen
<1>end. ASSUME Commit(r) \/ Rollback(r) PROVE FreshCopy(r)' /\ PermittedCall(r)'
  <2>1. pc'[r] = "idle"
    BY <1>end, Zenon DEF Commit, Rollback, End, BaseInv, TypeOK
  <2> QED BY <2>1, Zenon DEF FreshCopy, PermittedCall, Acting
<1>out. ASSUME NEW q \in Process, Fallback(q) \/ Annotate(q) PROVE FALSE
  BY <1>out, Zenon DEF Fallback, Annotate, ManagerOnly
<1>stutter. CASE UNCHANGED vars
  BY <1>kept, <1>stutter, Zenon DEF vars
<1> QED
  BY <1>other, <1>load, <1>try, <1>chain, <1>direct, <1>apply, <1>conflict, <1>end,
     <1>out, <1>stutter, Zenon DEF Next

LEMMA ManagerStep ==
    ManagerOnly /\ BaseInv /\ ManagerInv /\ [Next]_vars => ManagerInv'
BY PendingStep, CopiesStep, Zenon DEF ManagerInv

-----------------------------------------------------------------------------
(* When every status is written through OrderManager, a FILLED, CANCELLED or *)
(* REJECTED order keeps its status for ever: Pending says that no lock on    *)
(* such a row hides a write, so a commit cannot touch it.                    *)
THEOREM FinalStays ==
    ASSUME ManagerOnly
    PROVE  Spec => FinalIsFinal
<1>1. BaseInv /\ ManagerInv /\ [Next]_vars =>
          [\A o \in Order : row[o].status \in Final =>
                                row'[o].status = row[o].status]_vars
  <2> SUFFICES ASSUME ManagerInv, [Next]_vars, NEW o \in Order,
                      row[o].status \in Final
               PROVE  row'[o].status = row[o].status
    OBVIOUS
  <2>1. ASSUME NEW p \in Process, Commit(p) PROVE row'[o] = row[o]
    <3>1. row'[o] = Visible(p, o)
      BY <2>1, Zenon DEF Commit
    <3> QED BY <3>1, LifecycleAssumption, Zenon DEF Visible, ManagerInv, Pending
  <2> QED BY <2>1, RowSteps, Zenon
<1>2. Spec => [](BaseInv /\ ManagerInv)
  <2>1. Init => BaseInv /\ ManagerInv
    BY BaseInit, ManagerInit, Zenon
  <2>2. BaseInv /\ ManagerInv /\ [Next]_vars => (BaseInv /\ ManagerInv)'
    BY BaseStep, ManagerStep, Zenon
  <2> QED BY <2>1, <2>2, PTL DEF Spec
<1> QED BY <1>1, <1>2, PTL DEF Spec, FinalIsFinal

(* Under the same condition an EXPIRED row is only written to a status the   *)
(* table allows from EXPIRED.                                                *)
THEOREM ExpiredStays ==
    ASSUME ManagerOnly
    PROVE  Spec => ExpiredReopens
<1>1. BaseInv /\ ManagerInv /\ [Next]_vars =>
          [\A o \in Order : /\ draft[o].status = "expired"
                            /\ draft'[o] # draft[o]
                            /\ lock'[o] # NoOne
                            => draft'[o].status \in Allowed["expired"]]_vars
  <2> SUFFICES ASSUME BaseInv, ManagerInv, [Next]_vars, NEW o \in Order,
                      draft[o].status = "expired", draft'[o] # draft[o],
                      lock'[o] # NoOne
               PROVE  draft'[o].status \in Allowed["expired"]
    OBVIOUS
  <2>1. ASSUME NEW p \in Process, Apply(p)
        PROVE  draft'[o].status \in Allowed["expired"]
    <3>1. /\ ent[p].order \in Order /\ pc[p] = "update" /\ Writable(p, ent[p].order)
          /\ Visible(p, ent[p].order).version = call[p].version
          /\ draft' = [draft EXCEPT ![ent[p].order] =
                           [status |-> call[p].target, version |-> call[p].version + 1]]
      BY <2>1, Zenon DEF Apply, Write, BaseInv, Copies, Acting
    <3>2. o = ent[p].order /\ draft'[o].status = call[p].target
      BY <3>1, Zenon DEF BaseInv, TypeOK
    <3>3. Visible(p, o) = draft[o]
      BY <3>1, <3>2, LifecycleAssumption, Zenon DEF Visible, Writable, BaseInv, Drafts
    <3> QED BY <3>1, <3>2, <3>3, Zenon DEF ManagerInv, PermittedCall, Seen
  <2>2. ASSUME NEW p \in Process, Rollback(p) PROVE FALSE
    BY <2>2, Zenon DEF Rollback, End
  <2>3. ASSUME NEW p \in Process, Fallback(p) \/ Annotate(p) PROVE FALSE
    BY <2>3, Zenon DEF Fallback, Annotate, ManagerOnly
  <2>4. ASSUME NEW p \in Process, ChainStep(p) \/ Conflict(p) \/ Commit(p) PROVE FALSE
    BY <2>4, Zenon DEF ChainStep, Conflict, Commit
  <2>5. ASSUME NEW p \in Process, NEW t \in Status,
               \/ TryTransition(p, t) \/ CleanUp(p, t)
               \/ Reflect(p, t) \/ ManualResolve(p, t)
        PROVE  FALSE
    BY <2>5, Zenon DEF TryTransition, CleanUp, Reflect, ManualResolve
  <2>6. ASSUME NEW p \in Process, NEW x \in Order, Load(p, x) PROVE FALSE
    BY <2>6, Zenon DEF Load
  <2>7. CASE UNCHANGED vars
    BY <2>7, Zenon DEF vars
  <2> QED BY <2>1, <2>2, <2>3, <2>4, <2>5, <2>6, <2>7, Zenon DEF Next
<1>2. Spec => [](BaseInv /\ ManagerInv)
  <2>1. Init => BaseInv /\ ManagerInv
    BY BaseInit, ManagerInit
  <2>2. BaseInv /\ ManagerInv /\ [Next]_vars => (BaseInv /\ ManagerInv)'
    BY BaseStep, ManagerStep
  <2> QED BY <2>1, <2>2, PTL DEF Spec
<1> QED BY <1>1, <1>2, PTL DEF Spec, ExpiredReopens
=============================================================================

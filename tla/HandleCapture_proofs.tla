------------------------ MODULE HandleCapture_proofs ------------------------
(***************************************************************************)
(* The captures of one file's handles, proved: a modified handle is asked   *)
(* for exactly once, its own deletion is copied in time, a reader asks for  *)
(* nothing and a handle's own rename gives the name, for any number of      *)
(* handles, operations, names and failures.                                 *)
(***************************************************************************)
EXTENDS HandleCapture, TLAPS

\* TypeOK in parts.
HandleRec == [phase : Phases, hooked : BOOLEAN, doc : BOOLEAN, wrote : BOOLEAN,
              did : SUBSET AllKinds, raced : BOOLEAN, calm : BOOLEAN, asked : {0, 1}]

ShcRec == [flags : SUBSET Flags, observed : BOOLEAN, doc : BOOLEAN,
           current : Names \union {NoName}, original : Names \union {NoName}]

CleanupRec == [snap : SUBSET Flags, name : Names \union {NoName},
               live : Names \union {NoName}, passive : BOOLEAN,
               queried : BOOLEAN, completion : BOOLEAN]

OpRec == [phase : {"idle", "issued", "done", "flag", "name", "swap"},
          handle : Handles \union {NoHandle}, kind : AllKinds, hooked : BOOLEAN,
          name : Names \union {NoName}]

FileRec == [name : Names, pending : BOOLEAN, onDisk : BOOLEAN]

ObjectTypes ==
    /\ file \in FileRec
    /\ handle \in [Handles -> HandleRec]
    /\ shc \in [Handles -> ShcRec]
    /\ cleanup \in [Handles -> CleanupRec]
    /\ op \in [Ops -> OpRec]

OtherTypes ==
    /\ requests \subseteq [handle : Handles, name : Names]
    /\ copied \subseteq Handles
    /\ draining \in BOOLEAN
    /\ issued \in 0 .. MaxOps
    /\ failures \in 0 .. MaxFailures

Effects == {"write", "resize", "rename"}
Dispositions == {"delete", "undelete"}
Early == {"unopened", "open"}

\* What the place of an operation says of its handle.
OpInv ==
    \A o \in Ops : ~Idle(o) =>
        /\ op[o].handle \in Handles
        /\ op[o].kind # "section"
        /\ handle[op[o].handle].phase # "unopened"
        /\ ~handle[op[o].handle].calm
        /\ op[o].hooked => handle[op[o].handle].hooked
        /\ op[o].phase # "issued" =>
              /\ op[o].kind \in handle[op[o].handle].did
              /\ op[o].kind \in Effects => handle[op[o].handle].wrote
        /\ op[o].phase = "flag" => op[o].kind \in Dispositions
        /\ op[o].phase \in {"name", "swap"} => op[o].kind = "rename"
        /\ op[o].phase \in {"flag", "name", "swap"} => op[o].hooked

\* What the flags of a context say of its handle.
ContextInv ==
    \A h \in Handles :
        /\ "MODIFIED" \in shc[h].flags => handle[h].wrote \/ handle[h].doc
        /\ "DELETE_ON_CLOSE" \in shc[h].flags => handle[h].doc \/ "delete" \in handle[h].did
        /\ shc[h].observed => handle[h].did \intersect Dispositions # {}
        /\ handle[h].hooked => shc[h].doc = handle[h].doc
        /\ shc[h].doc => "DELETE_ON_CLOSE" \in shc[h].flags
        /\ "BACKED_UP" \in shc[h].flags => handle[h].phase \notin Early

\* There is something to capture.
Reason(h) ==
    \/ handle[h].wrote
    \/ handle[h].doc
    \/ handle[h].did \intersect Dispositions # {}

\* What the place of a handle says of its cleanup.
Place(h) ==
    /\ handle[h].calm => handle[h].phase \notin Early
    /\ handle[h].phase = "unopened" => ~handle[h].doc /\ handle[h].did = {}
    /\ handle[h].phase \in Early \union {"resolve"} => cleanup[h].name = NoName
    /\ handle[h].phase \in Early \union {"resolve", "query"} =>
          ~cleanup[h].queried /\ ~cleanup[h].completion
    /\ handle[h].phase \in {"query", "sync", "post"} \/ cleanup[h].completion =>
          cleanup[h].name \in Names
    /\ handle[h].phase = "sync" => ~cleanup[h].completion
    /\ cleanup[h].queried => cleanup[h].passive
    /\ handle[h].phase = "sync" => cleanup[h].passive
    /\ cleanup[h].name # NoName => handle[h].hooked
    /\ handle[h].phase \notin {"fs", "closed"} => handle[h].asked = 0
    /\ handle[h].phase # "closed" /\ cleanup[h].completion => handle[h].asked = 0
    /\ \/ handle[h].phase \in {"resolve", "query", "sync", "post"}
       \/ cleanup[h].completion
       \/ handle[h].asked = 1
       => handle[h].hooked /\ Reason(h)

PlaceInv == \A h \in Handles : Place(h)

\* An operation of h that the file system has done and no post callback has seen.
Todo(o, h, kinds) ==
    op[o].phase = "done" /\ op[o].handle = h /\ op[o].kind \in kinds

\* A context tells what its handle did, but for what is yet to be seen.
SeenInv ==
    Smooth =>
        /\ \A o \in Ops : ~Idle(o) /\ handle[op[o].handle].hooked => op[o].hooked
        /\ \A h \in Handles : handle[h].hooked =>
              /\ handle[h].wrote => \/ "MODIFIED" \in shc[h].flags
                                    \/ \E o \in Ops : Todo(o, h, Effects)
              /\ "delete" \in handle[h].did => \/ shc[h].observed
                                               \/ \E o \in Ops : Todo(o, h, {"delete"})

\* So does the cleanup's snapshot of the flags, and what it has asked for.
Snap(h) ==
    handle[h].hooked /\ handle[h].calm =>
        /\ handle[h].phase \in {"resolve", "query"} =>
              /\ handle[h].wrote => "MODIFIED" \in cleanup[h].snap
              /\ handle[h].doc => "DELETE_ON_CLOSE" \in cleanup[h].snap
        /\ handle[h].phase \in {"fs", "closed"} /\ handle[h].wrote
           /\ cleanup[h].name \notin Excluded =>
              \/ handle[h].asked = 1
              \/ handle[h].phase = "fs" /\ cleanup[h].completion

SnapInv == Smooth => \A h \in Handles : Snap(h)

\* Where a pending deletion comes from.
FileInv ==
    /\ ~file.onDisk => file.pending
    /\ file.pending => \E g \in Handles : "delete" \in handle[g].did \/ handle[g].doc
    /\ /\ \E g \in Handles : "delete" \in handle[g].did
       /\ \A g \in Handles : "undelete" \notin handle[g].did
       => file.pending

\* The other handles neither delete nor rename.
Quiet(h) ==
    \A g \in Others(h) : ~handle[g].doc /\ handle[g].did \intersect {"delete", "rename"} = {}

Kept(h) == handle[h].doc => \A g \in Handles : "undelete" \notin handle[g].did

\* A deletion is seen when it is queried, and then copied.
Deletion(h) ==
    handle[h].hooked /\ handle[h].calm /\ Quiet(h) /\ Kept(h) =>
        /\ handle[h].phase \in {"query", "sync"} => file.name = cleanup[h].live
        /\ cleanup[h].queried /\ (file.pending \/ handle[h].doc) =>
              "DELETE_ON_CLOSE" \in cleanup[h].snap
        /\ /\ cleanup[h].queried
           /\ "DELETE_ON_CLOSE" \in cleanup[h].snap
           /\ handle[h].phase \in {"fs", "post", "closed"}
           /\ cleanup[h].name = cleanup[h].live
           => h \in copied

DeletionInv == Smooth => \A h \in Handles : Deletion(h)

\* An operation that renames through h.
RenameOf(o, h) == ~Idle(o) /\ op[o].handle = h /\ op[o].kind = "rename"

OneRename ==
    \A h \in Handles : ~handle[h].raced =>
        \A o1, o2 \in Ops : RenameOf(o1, h) /\ RenameOf(o2, h) => o1 = o2

Renamer(h) ==
    /\ handle[h].hooked /\ ~handle[h].raced
    /\ \A g \in Others(h) : "rename" \notin handle[g].did

\* The name that a handle's renames leave is the file's, but for a rename yet to
\* be seen.
Named(h) ==
    Renamer(h) =>
        /\ shc[h].current # NoName =>
              \/ shc[h].current = file.name
              \/ \E o \in Ops : RenameOf(o, h) /\ op[o].phase # "issued"
        /\ \A o \in Ops : op[o].phase = "swap" /\ op[o].handle = h => op[o].name = file.name
        /\ handle[h].calm /\ cleanup[h].name # NoName => cleanup[h].name = cleanup[h].live

NameInv == Smooth => \A h \in Handles : Named(h)

HInv ==
    /\ ObjectTypes /\ OtherTypes
    /\ OpInv /\ ContextInv /\ PlaceInv
    /\ SeenInv /\ SnapInv /\ FileInv /\ DeletionInv
    /\ OneRename /\ NameInv
-----------------------------------------------------------------------------

\* Nothing has failed after a step only if nothing had before it.
LEMMA SmoothBack ==
    ASSUME HInv, Fail \/ UNCHANGED failures, draining => draining'
    PROVE  /\ Smooth' => Smooth /\ UNCHANGED failures
           /\ failures' \in 0 .. MaxFailures
  <1>1. failures \in 0 .. MaxFailures /\ MaxFailures \in Nat
    BY HandleCaptureAssumption DEF HInv, OtherTypes
  <1> QED BY <1>1 DEF Fail, Smooth

\* What depends only on the file, the handles and their cleanups.
LEMMA FileFrame ==
    ASSUME HInv, UNCHANGED <<file, handle, cleanup, copied>>,
           Fail \/ UNCHANGED failures, draining => draining'
    PROVE  PlaceInv' /\ SnapInv' /\ FileInv' /\ DeletionInv'
  <1>1. Smooth' => Smooth
    BY SmoothBack
  <1>2. PlaceInv' /\ FileInv'
    BY DEF HInv, PlaceInv, Place, FileInv, Reason
  <1>3. SnapInv'
    BY <1>1 DEF HInv, SnapInv, Snap
  <1>4. DeletionInv'
    <2>1. \A h : (Quiet(h)' <=> Quiet(h)) /\ (Kept(h)' <=> Kept(h))
      BY DEF Quiet, Kept, Others
    <2> QED BY <1>1, <2>1 DEF HInv, DeletionInv, Deletion
  <1> QED BY <1>2, <1>3, <1>4

\* One operation moves; its handle stays what it is.
Advances(o, next) ==
    /\ op' = [op EXCEPT ![o] = next]
    /\ UNCHANGED <<file, handle, cleanup, requests, copied, draining, issued>>

LEMMA AdvanceFields ==
    ASSUME HInv, NEW o \in Ops, NEW next \in OpRec, Advances(o, next)
    PROVE  /\ op' \in [Ops -> OpRec] /\ op'[o] = next
           /\ \A x \in Ops : x # o => op'[x] = op[x]
  BY DEF HInv, ObjectTypes, Advances

LEMMA NoOpType == NoOp \in OpRec /\ NoOp.phase = "idle"
  BY DEF NoOp, OpRec, AllKinds

\* An operation that ends without a trace: refused, or seen too late.
LEMMA ForgetKeeps == ASSUME HInv, NEW o \in Ops, Forget(o) PROVE HInv'
  <1>1. /\ Advances(o, NoOp) /\ UNCHANGED <<shc, failures>>
        /\ op[o].phase = "issued" \/ (op[o].phase = "done" /\ (draining \/ ~op[o].hooked))
    BY DEF Forget, Advances
  <1>2. /\ op' \in [Ops -> OpRec] /\ op'[o].phase = "idle"
        /\ \A x \in Ops : x # o => op'[x] = op[x]
    BY <1>1, NoOpType, AdvanceFields
  <1>3. UNCHANGED <<file, handle, shc, cleanup, requests, copied, draining, issued, failures>>
    BY <1>1 DEF Advances
  <1>4. ObjectTypes' /\ OtherTypes'
    BY <1>2, <1>3 DEF HInv, ObjectTypes, OtherTypes
  <1>5. PlaceInv' /\ SnapInv' /\ FileInv' /\ DeletionInv'
    BY <1>3, FileFrame
  <1>6. OpInv'
    BY <1>2, <1>3 DEF HInv, OpInv, Idle
  <1>7. ContextInv'
    BY <1>3 DEF HInv, ContextInv
  <1>8. SeenInv'
    <2>1. ~Idle(o)
      BY <1>1 DEF Idle
    <2>2. Smooth' => Smooth
      BY <1>3, SmoothBack
    <2>3. Smooth => \A h \in Handles : handle[h].hooked => \A kinds : ~Todo(o, h, kinds)
      BY <1>1, <2>1 DEF Todo, HInv, SeenInv, Smooth
    <2> QED BY <1>2, <1>3, <2>2, <2>3 DEF HInv, SeenInv, Todo, Idle
  <1>9. OneRename'
    BY <1>2, <1>3 DEF HInv, OneRename, RenameOf, Idle
  <1>10. NameInv'
    <2>1. Smooth' => Smooth
      BY <1>3, SmoothBack
    <2>2. ASSUME Smooth, NEW h \in Handles, Renamer(h), NEW x \in Ops, RenameOf(x, h),
                 op[x].phase # "issued"
          PROVE  x # o
      BY <1>1, <2>2 DEF HInv, SeenInv, Renamer, RenameOf, Smooth
    <2> QED BY <1>2, <1>3, <2>1, <2>2 DEF HInv, NameInv, Named, Renamer, RenameOf, Idle
  <1> QED BY <1>4, <1>5, <1>6, <1>7, <1>8, <1>9, <1>10 DEF HInv

\* The context of a handle changes in some fields.
LEMMA ContextFields ==
    ASSUME HInv, NEW h \in Handles, NEW context \in ShcRec, shc' = [shc EXCEPT ![h] = context]
    PROVE  /\ shc' \in [Handles -> ShcRec] /\ shc'[h] = context
           /\ \A g \in Handles : g # h => shc'[g] = shc[g]
  BY DEF HInv, ObjectTypes

\* The post callback of a write, of a disposition and of a rename.
LEMMA PostKeeps == ASSUME HInv, NEW o \in Ops, Post(o) PROVE HInv'
  <1> DEFINE h == op[o].handle
  <1>1. /\ op[o].phase = "done" /\ op[o].hooked /\ ~draining /\ ~Idle(o)
        /\ UNCHANGED <<file, handle, cleanup, requests, copied, draining, issued, failures>>
    BY DEF Post, Idle
  <1>2. /\ h \in Handles /\ op[o] \in OpRec /\ shc[h] \in ShcRec
        /\ op[o].kind \in handle[h].did
        /\ op[o].kind \in Effects => handle[h].wrote
    BY <1>1 DEF HInv, OpInv, ObjectTypes
  <1>3. /\ ObjectTypes'
        /\ \A x \in Ops : x # o => op'[x] = op[x]
        /\ \A g \in Handles : g # h => shc'[g] = shc[g]
        /\ shc'[h].doc = shc[h].doc /\ shc'[h].current = shc[h].current
        /\ shc[h].observed => shc'[h].observed
        /\ \/ /\ op[o].kind \in {"write", "resize"} /\ op'[o].phase = "idle"
              /\ shc'[h].flags = shc[h].flags \union {"MODIFIED"}
              /\ shc'[h].observed = shc[h].observed
           \/ /\ op[o].kind \in Dispositions /\ op'[o] = [op[o] EXCEPT !.phase = "flag"]
              /\ shc'[h].observed /\ shc'[h].flags = shc[h].flags
           \/ /\ op[o].kind = "rename" /\ op'[o] = [op[o] EXCEPT !.phase = "name"]
              /\ shc'[h].flags = shc[h].flags \union {"MODIFIED", "RENAMED"}
              /\ shc'[h].observed = shc[h].observed
    <2>1. CASE op[o].kind \in {"write", "resize"}
      <3>1. /\ shc' = [shc EXCEPT ![h].flags = shc[h].flags \union {"MODIFIED"}]
            /\ op' = [op EXCEPT ![o] = NoOp]
        BY <2>1 DEF Post
      <3>2. [shc[h] EXCEPT !.flags = shc[h].flags \union {"MODIFIED"}] \in ShcRec
        BY <1>2 DEF ShcRec, Flags
      <3> QED BY <1>1, <1>2, <2>1, <3>1, <3>2, NoOpType DEF HInv, ObjectTypes, ShcRec
    <2>2. CASE op[o].kind \in Dispositions
      <3>1. /\ shc' = [shc EXCEPT ![h].observed = TRUE]
            /\ op' = [op EXCEPT ![o].phase = "flag"]
        BY <2>2 DEF Post, Dispositions
      <3>2. [shc[h] EXCEPT !.observed = TRUE] \in ShcRec
        BY <1>2 DEF ShcRec
      <3>3. [op[o] EXCEPT !.phase = "flag"] \in OpRec
        BY <1>2 DEF OpRec
      <3> QED BY <1>1, <1>2, <2>2, <3>1, <3>2, <3>3 DEF HInv, ObjectTypes, ShcRec
    <2>3. CASE op[o].kind = "rename"
      <3>1. /\ shc' = [shc EXCEPT ![h].flags = shc[h].flags \union {"MODIFIED", "RENAMED"}]
            /\ op' = [op EXCEPT ![o].phase = "name"]
        BY <2>3 DEF Post
      <3>2. [shc[h] EXCEPT !.flags = shc[h].flags \union {"MODIFIED", "RENAMED"}] \in ShcRec
        BY <1>2 DEF ShcRec, Flags
      <3>3. [op[o] EXCEPT !.phase = "name"] \in OpRec
        BY <1>2 DEF OpRec
      <3> QED BY <1>1, <1>2, <2>3, <3>1, <3>2, <3>3 DEF HInv, ObjectTypes, ShcRec
    <2>4. op[o].kind \in {"write", "resize"} \union Dispositions \union {"rename"}
      <3>1. op[o].kind # "section"
        BY <1>1 DEF HInv, OpInv
      <3> QED BY <1>2, <3>1 DEF OpRec, AllKinds, Dispositions
    <2> QED BY <2>1, <2>2, <2>3, <2>4
  <1>4. /\ op'[o].phase # "idle" => /\ op'[o].handle = h /\ op'[o].hooked
                                    /\ op'[o].kind = op[o].kind
        /\ op'[o].phase \in {"idle", "flag", "name"}
        /\ op'[o].phase = "flag" <=> op[o].kind \in Dispositions
        /\ op'[o].phase = "name" <=> op[o].kind = "rename"
    BY <1>1, <1>2, <1>3 DEF OpRec, Dispositions
  <1> HIDE DEF h
  <1>5. OtherTypes' /\ PlaceInv' /\ SnapInv' /\ FileInv' /\ DeletionInv'
    BY <1>1, FileFrame DEF HInv, OtherTypes
  <1>6. OpInv'
    <2> SUFFICES ASSUME NEW x \in Ops, op'[x].phase # "idle"
                 PROVE  /\ op'[x].handle \in Handles
                        /\ op'[x].kind # "section"
                        /\ handle[op'[x].handle].phase # "unopened"
                        /\ ~handle[op'[x].handle].calm
                        /\ op'[x].hooked => handle[op'[x].handle].hooked
                        /\ op'[x].phase # "issued" =>
                              /\ op'[x].kind \in handle[op'[x].handle].did
                              /\ op'[x].kind \in Effects => handle[op'[x].handle].wrote
                        /\ op'[x].phase = "flag" => op'[x].kind \in Dispositions
                        /\ op'[x].phase \in {"name", "swap"} => op'[x].kind = "rename"
                        /\ op'[x].phase \in {"flag", "name", "swap"} => op'[x].hooked
      BY <1>1 DEF OpInv, Idle
    <2>1. CASE x = o
      BY <1>1, <1>2, <1>4, <2>1 DEF HInv, OpInv, h
    <2>2. CASE x # o
      BY <1>3, <2>2 DEF HInv, OpInv, Idle
    <2> QED BY <2>1, <2>2
  <1>7. ContextInv'
    <2> SUFFICES ASSUME NEW g \in Handles
                 PROVE  /\ "MODIFIED" \in shc'[g].flags => handle[g].wrote \/ handle[g].doc
                        /\ "DELETE_ON_CLOSE" \in shc'[g].flags =>
                              handle[g].doc \/ "delete" \in handle[g].did
                        /\ shc'[g].observed => handle[g].did \intersect Dispositions # {}
                        /\ handle[g].hooked => shc'[g].doc = handle[g].doc
                        /\ shc'[g].doc => "DELETE_ON_CLOSE" \in shc'[g].flags
                        /\ "BACKED_UP" \in shc'[g].flags => handle[g].phase \notin Early
      BY <1>1 DEF ContextInv
    <2>1. CASE g # h
      BY <1>3, <2>1 DEF HInv, ContextInv
    <2>2. CASE g = h
      BY <1>2, <1>3, <2>2 DEF HInv, ContextInv, Effects
    <2> QED BY <2>1, <2>2
  <1>8. SeenInv'
    <2>1. Smooth' => Smooth
      BY <1>1, SmoothBack
    <2>2. \A x \in Ops : op'[x].phase # "idle" =>
             /\ op[x].phase # "idle" /\ op'[x].handle = op[x].handle
             /\ op[x].hooked => op'[x].hooked
      BY <1>1, <1>3, <1>4 DEF Idle, h
    <2>3. \A g \in Handles :
             /\ "MODIFIED" \in shc[g].flags => "MODIFIED" \in shc'[g].flags
             /\ shc[g].observed => shc'[g].observed
      BY <1>3
    <2>4. \A x \in Ops, g \in Handles :
             /\ Todo(x, g, Effects) => Todo(x, g, Effects)' \/ "MODIFIED" \in shc'[g].flags
             /\ Todo(x, g, {"delete"}) => Todo(x, g, {"delete"})' \/ shc'[g].observed
      BY <1>3 DEF Todo, Effects, Dispositions, h
    <2> QED BY <1>1, <2>1, <2>2, <2>3, <2>4 DEF HInv, SeenInv, Idle
  <1>9. OneRename'
    BY <1>1, <1>3, <1>4 DEF HInv, OneRename, RenameOf, Idle, h
  <1>10. NameInv'
    <2>1. Smooth' => Smooth
      BY <1>1, SmoothBack
    <2>2. \A g \in Handles : shc'[g].current = shc[g].current
      BY <1>3
    <2>3. \A x \in Ops, g \in Handles :
             RenameOf(x, g) /\ op[x].phase # "issued" =>
                 RenameOf(x, g)' /\ op'[x].phase # "issued"
      BY <1>1, <1>3, <1>4 DEF RenameOf, Idle, h
    <2>4. \A x \in Ops : op'[x].phase = "swap" => op'[x] = op[x]
      BY <1>3, <1>4
    <2> QED BY <1>1, <2>1, <2>2, <2>3, <2>4 DEF HInv, NameInv, Named, Renamer
  <1> QED BY <1>3, <1>5, <1>6, <1>7, <1>8, <1>9, <1>10 DEF HInv

\* The flag follows the disposition, but stays with FILE_DELETE_ON_CLOSE.
LEMMA PostDispositionKeeps == ASSUME HInv, NEW o \in Ops, PostDisposition(o) PROVE HInv'
  <1> DEFINE h == op[o].handle
             flags == IF op[o].kind = "delete" THEN shc[h].flags \union {"DELETE_ON_CLOSE"}
                      ELSE IF shc[h].doc THEN shc[h].flags
                      ELSE shc[h].flags \ {"DELETE_ON_CLOSE"}
  <1>1. /\ op[o].phase = "flag" /\ ~Idle(o) /\ Advances(o, NoOp) /\ UNCHANGED failures
        /\ UNCHANGED <<file, handle, cleanup, requests, copied, draining, issued>>
        /\ shc' = [shc EXCEPT ![h].flags = flags]
    BY DEF PostDisposition, Advances, Idle
  <1>2. /\ op' \in [Ops -> OpRec] /\ op'[o].phase = "idle"
        /\ \A x \in Ops : x # o => op'[x] = op[x]
    BY <1>1, NoOpType, AdvanceFields
  <1>3. /\ h \in Handles /\ shc[h] \in ShcRec
        /\ op[o].kind = "delete" => "delete" \in handle[h].did
    BY <1>1 DEF HInv, OpInv, ObjectTypes
  <1>4. /\ shc' \in [Handles -> ShcRec]
        /\ \A g \in Handles : g # h => shc'[g] = shc[g]
        /\ shc'[h] = [shc[h] EXCEPT !.flags = flags]
    <2>1. [shc[h] EXCEPT !.flags = flags] \in ShcRec
      BY <1>3 DEF ShcRec, Flags
    <2> QED BY <1>1, <1>3, <2>1 DEF HInv, ObjectTypes
  <1>5. /\ \A g \in Handles :
              /\ shc'[g].observed = shc[g].observed /\ shc'[g].doc = shc[g].doc
              /\ shc'[g].current = shc[g].current
              /\ "MODIFIED" \in shc'[g].flags <=> "MODIFIED" \in shc[g].flags
              /\ "BACKED_UP" \in shc'[g].flags <=> "BACKED_UP" \in shc[g].flags
        /\ "DELETE_ON_CLOSE" \in shc'[h].flags =>
              op[o].kind = "delete" \/ "DELETE_ON_CLOSE" \in shc[h].flags
        /\ shc[h].doc /\ "DELETE_ON_CLOSE" \in shc[h].flags =>
              "DELETE_ON_CLOSE" \in shc'[h].flags
    BY <1>3, <1>4 DEF ShcRec
  <1> HIDE DEF h, flags
  <1>6. ObjectTypes' /\ OtherTypes'
    BY <1>1, <1>2, <1>4 DEF HInv, ObjectTypes, OtherTypes
  <1>7. PlaceInv' /\ SnapInv' /\ FileInv' /\ DeletionInv'
    BY <1>1, FileFrame
  <1>8. OpInv'
    BY <1>1, <1>2 DEF HInv, OpInv, Idle
  <1>9. ContextInv'
    BY <1>1, <1>3, <1>4, <1>5 DEF HInv, ContextInv
  <1>10. SeenInv'
    <2>1. Smooth' => Smooth
      BY <1>1, SmoothBack
    <2>2. \A kinds : \A x \in Ops, g \in Handles : Todo(x, g, kinds) => Todo(x, g, kinds)'
      BY <1>1, <1>2 DEF Todo
    <2> QED BY <1>1, <1>2, <1>5, <2>1, <2>2 DEF HInv, SeenInv, Idle
  <1>11. OneRename' /\ NameInv'
    <2>1. Smooth' => Smooth
      BY <1>1, SmoothBack
    <2>2. op[o].kind # "rename"
      BY <1>1 DEF HInv, OpInv, Dispositions
    <2>3. \A x \in Ops, g \in Handles : RenameOf(x, g)' <=> RenameOf(x, g)
      BY <1>1, <1>2, <2>2 DEF RenameOf, Idle
    <2>4. OneRename'
      BY <1>1, <2>3 DEF HInv, OneRename
    <2> QED BY <1>1, <1>2, <1>5, <2>1, <2>2, <2>3, <2>4 DEF HInv, NameInv, Named, Renamer, RenameOf
  <1> QED BY <1>6, <1>7, <1>8, <1>9, <1>10, <1>11 DEF HInv

\* A rename's look-up of the path and its storing.
LEMMA QueryNameKeeps == ASSUME HInv, NEW o \in Ops, QueryName(o) PROVE HInv'
  <1>1. /\ op[o].phase = "name" /\ ~Idle(o) /\ op[o] \in OpRec
        /\ UNCHANGED <<file, handle, shc, cleanup, requests, copied, draining, issued>>
        /\ Fail \/ UNCHANGED failures
    BY DEF QueryName, Idle, HInv, ObjectTypes
  <1>2. /\ op' \in [Ops -> OpRec]
        /\ \A x \in Ops : x # o => op'[x] = op[x]
        /\ \/ /\ op'[o].phase = "swap" /\ op'[o].name = file.name
              /\ op'[o].handle = op[o].handle /\ op'[o].kind = op[o].kind
              /\ op'[o].hooked = op[o].hooked
           \/ op'[o].phase = "idle" /\ Fail
    <2>1. CASE op' = [op EXCEPT ![o].phase = "swap", ![o].name = file.name]
      <3>1. [op[o] EXCEPT !.phase = "swap", !.name = file.name] \in OpRec
        BY <1>1 DEF OpRec, HInv, ObjectTypes, FileRec
      <3>2. op' = [op EXCEPT ![o] = [op[o] EXCEPT !.phase = "swap", !.name = file.name]]
        BY <2>1 DEF HInv, ObjectTypes
      <3> QED BY <1>1, <3>1, <3>2 DEF HInv, ObjectTypes, OpRec
    <2>2. CASE op' = [op EXCEPT ![o] = NoOp] /\ Fail
      BY <2>2, NoOpType DEF HInv, ObjectTypes
    <2> QED BY <2>1, <2>2 DEF QueryName
  <1>3. ObjectTypes' /\ OtherTypes'
    BY <1>1, <1>2, SmoothBack DEF HInv, ObjectTypes, OtherTypes
  <1>4. PlaceInv' /\ SnapInv' /\ FileInv' /\ DeletionInv'
    BY <1>1, FileFrame
  <1>5. OpInv'
    BY <1>1, <1>2 DEF HInv, OpInv, Idle
  <1>6. ContextInv'
    BY <1>1 DEF HInv, ContextInv
  <1>7. Smooth' => Smooth /\ UNCHANGED failures
    BY <1>1, SmoothBack
  <1>8. SeenInv'
    <2>1. \A kinds : \A x \in Ops, h \in Handles : Todo(x, h, kinds) => Todo(x, h, kinds)'
      BY <1>1, <1>2 DEF Todo
    <2> QED BY <1>1, <1>2, <1>7, <2>1 DEF HInv, SeenInv, Idle
  <1>9. OneRename'
    BY <1>1, <1>2 DEF HInv, OneRename, RenameOf, Idle
  <1>10. NameInv'
    <2>1. failures \in Nat
      BY DEF HInv, OtherTypes
    <2>2. UNCHANGED failures => op'[o].phase = "swap" /\ op'[o].name = file.name
                               /\ op'[o].handle = op[o].handle /\ op'[o].kind = op[o].kind
      BY <1>2, <2>1 DEF Fail
    <2> QED BY <1>1, <1>2, <1>7, <2>2 DEF HInv, NameInv, Named, Renamer, RenameOf, Idle
  <1> QED BY <1>3, <1>4, <1>5, <1>6, <1>8, <1>9, <1>10 DEF HInv

LEMMA SwapNameKeeps == ASSUME HInv, NEW o \in Ops, SwapName(o) PROVE HInv'
  <1> DEFINE h == op[o].handle
  <1>1. /\ op[o].phase = "swap" /\ ~Idle(o) /\ op[o] \in OpRec /\ Advances(o, NoOp)
        /\ UNCHANGED <<file, handle, cleanup, requests, copied, draining, issued>>
        /\ Fail \/ UNCHANGED failures
        /\ \/ shc' = [shc EXCEPT ![h].current = op[o].name] /\ UNCHANGED failures
           \/ shc' = shc /\ Fail
    BY DEF SwapName, Idle, Advances, HInv, ObjectTypes
  <1>2. /\ op' \in [Ops -> OpRec] /\ op'[o].phase = "idle"
        /\ \A x \in Ops : x # o => op'[x] = op[x]
    BY <1>1, NoOpType, AdvanceFields
  <1>3. h \in Handles /\ shc[h] \in ShcRec /\ op[o].kind = "rename"
    BY <1>1 DEF HInv, OpInv, ObjectTypes
  <1>4. /\ shc' \in [Handles -> ShcRec]
        /\ \A g \in Handles : g # h => shc'[g] = shc[g]
        /\ shc'[h].flags = shc[h].flags /\ shc'[h].observed = shc[h].observed
        /\ shc'[h].doc = shc[h].doc
        /\ shc'[h].current = op[o].name \/ (shc' = shc /\ Fail)
    <2>1. [shc[h] EXCEPT !.current = op[o].name] \in ShcRec
      BY <1>1, <1>3 DEF ShcRec, OpRec
    <2> QED BY <1>1, <1>3, <2>1 DEF HInv, ObjectTypes, ShcRec
  <1> HIDE DEF h
  <1>5. ObjectTypes' /\ OtherTypes'
    BY <1>1, <1>2, <1>4, SmoothBack DEF HInv, ObjectTypes, OtherTypes
  <1>6. PlaceInv' /\ SnapInv' /\ FileInv' /\ DeletionInv'
    BY <1>1, FileFrame
  <1>7. OpInv'
    BY <1>1, <1>2 DEF HInv, OpInv, Idle
  <1>8. ContextInv'
    BY <1>1, <1>3, <1>4 DEF HInv, ContextInv
  <1>9. Smooth' => Smooth /\ UNCHANGED failures
    BY <1>1, SmoothBack
  <1>10. SeenInv'
    <2>1. \A kinds : \A x \in Ops, g \in Handles : Todo(x, g, kinds) => Todo(x, g, kinds)'
      BY <1>1, <1>2 DEF Todo
    <2> QED BY <1>1, <1>2, <1>4, <1>9, <2>1 DEF HInv, SeenInv, Idle
  <1>11. OneRename'
    BY <1>1, <1>2 DEF HInv, OneRename, RenameOf, Idle
  <1>12. NameInv'
    <2> SUFFICES ASSUME Smooth, UNCHANGED failures, NEW g \in Handles, Renamer(g)
                 PROVE  /\ shc'[g].current # NoName =>
                              \/ shc'[g].current = file.name
                              \/ \E x \in Ops : RenameOf(x, g)' /\ op'[x].phase # "issued"
                        /\ \A x \in Ops : op'[x].phase = "swap" /\ op'[x].handle = g =>
                              op'[x].name = file.name
                        /\ handle[g].calm /\ cleanup[g].name # NoName =>
                              cleanup[g].name = cleanup[g].live
      BY <1>1, <1>9 DEF NameInv, Named, Renamer
    <2>1. failures \in Nat
      BY DEF HInv, OtherTypes
    <2>2. shc'[h].current = op[o].name
      BY <1>4, <2>1 DEF Fail
    <2>3. CASE g = h
      <3>1. op[o].name = file.name
        BY <1>1, <2>3 DEF HInv, NameInv, Named, h
      <3> QED BY <1>1, <1>2, <2>2, <2>3, <3>1 DEF HInv, NameInv, Named
    <2>4. CASE g # h
      <3>1. \A x \in Ops : RenameOf(x, g) => x # o /\ RenameOf(x, g)' /\ op'[x] = op[x]
        BY <1>1, <1>2, <2>4 DEF RenameOf, Idle, h
      <3>2. \A x \in Ops : op'[x].phase = "swap" => op'[x] = op[x]
        BY <1>2
      <3>3. shc'[g].current = shc[g].current
        BY <1>4, <2>4
      <3> QED BY <1>1, <3>1, <3>2, <3>3 DEF HInv, NameInv, Named
    <2> QED BY <2>3, <2>4
  <1> QED BY <1>5, <1>6, <1>7, <1>8, <1>10, <1>11, <1>12 DEF HInv
-----------------------------------------------------------------------------

\* A step of the last close of h: what the handle did, and the other handles,
\* stay as they are.
Closes(h) ==
    /\ UNCHANGED <<op, draining, issued>>
    /\ Fail \/ UNCHANGED failures
    /\ handle[h].phase # "unopened" /\ handle'[h].phase \notin Early
    /\ handle'[h].hooked = handle[h].hooked /\ handle'[h].doc = handle[h].doc
    /\ handle'[h].wrote = handle[h].wrote /\ handle'[h].did = handle[h].did
    /\ handle'[h].raced = handle[h].raced
    /\ handle'[h].calm => handle[h].calm \/ ~InFlight(h)
    /\ shc'[h].observed = shc[h].observed /\ shc'[h].doc = shc[h].doc
    /\ shc'[h].current = shc[h].current
    /\ shc'[h].flags \in {shc[h].flags, shc[h].flags \union {"BACKED_UP"}}
    /\ \A g \in Handles : g # h => /\ handle'[g] = handle[g] /\ shc'[g] = shc[g]
                                   /\ cleanup'[g] = cleanup[g]
    /\ file'.name = file.name
    /\ file'.pending => file.pending \/ handle[h].doc
    /\ copied \subseteq copied'

\* Such a step keeps what is not about the cleanup of h itself.
LEMMA CloseKeeps ==
    ASSUME HInv, NEW h \in Handles, Closes(h), ObjectTypes', OtherTypes', FileInv',
           Place(h)', Smooth /\ UNCHANGED failures => Snap(h)' /\ Deletion(h)',
           Smooth /\ UNCHANGED failures /\ Renamer(h) /\ handle'[h].calm
           /\ cleanup'[h].name # NoName => cleanup'[h].name = cleanup'[h].live
    PROVE  HInv'
  <1>1. Smooth' => Smooth /\ UNCHANGED failures
    BY SmoothBack DEF Closes
  <1>2. /\ UNCHANGED <<op, draining, issued>> /\ handle'[h].phase \notin Early
        /\ file'.name = file.name /\ copied \subseteq copied'
        /\ file'.pending => file.pending \/ handle[h].doc
        /\ handle'[h].calm => handle[h].calm \/ ~InFlight(h)
        /\ \A g \in Handles : g # h => /\ handle'[g] = handle[g] /\ shc'[g] = shc[g]
                                       /\ cleanup'[g] = cleanup[g]
    BY DEF Closes
  <1>a. \A g \in Handles :
           /\ handle'[g].hooked = handle[g].hooked /\ handle'[g].doc = handle[g].doc
           /\ handle'[g].wrote = handle[g].wrote /\ handle'[g].did = handle[g].did
           /\ handle'[g].raced = handle[g].raced
           /\ handle[g].phase # "unopened" => handle'[g].phase # "unopened"
           /\ shc'[g].observed = shc[g].observed /\ shc'[g].doc = shc[g].doc
           /\ shc'[g].current = shc[g].current
    BY DEF Closes, Early
  <1>b. \A g \in Handles :
           /\ "MODIFIED" \in shc'[g].flags <=> "MODIFIED" \in shc[g].flags
           /\ "DELETE_ON_CLOSE" \in shc'[g].flags <=> "DELETE_ON_CLOSE" \in shc[g].flags
    <2>1. shc'[h].flags \in {shc[h].flags, shc[h].flags \union {"BACKED_UP"}}
      BY DEF Closes
    <2> QED BY <1>2, <2>1
  <1>3. \A g \in Handles : /\ Quiet(g)' <=> Quiet(g)
                           /\ Kept(g)' <=> Kept(g)
                           /\ Renamer(g)' <=> Renamer(g)
    BY <1>2, <1>a, <1>b DEF Quiet, Kept, Renamer, Others
  <1>4. OpInv'
    <2> SUFFICES ASSUME NEW o \in Ops, ~Idle(o)
                 PROVE  ~handle'[op[o].handle].calm
      BY <1>2, <1>a, <1>b DEF HInv, OpInv, Idle
    <2>1. op[o].handle = h => InFlight(h)
      BY DEF InFlight
    <2> QED BY <1>2, <1>a, <1>b, <2>1 DEF HInv, OpInv
  <1>5. ContextInv'
    <2>1. \A g \in Handles : "BACKED_UP" \in shc'[g].flags => handle'[g].phase \notin Early
      BY <1>2, <1>a, <1>b DEF HInv, ContextInv
    <2> QED BY <1>2, <1>a, <1>b, <2>1 DEF HInv, ContextInv
  <1>6. PlaceInv'
    <2>1. ASSUME NEW g \in Handles, g # h PROVE Place(g)'
      BY <1>2, <1>a, <1>b, <2>1 DEF HInv, PlaceInv, Place, Reason
    <2> QED BY <2>1 DEF PlaceInv
  <1>7. SeenInv'
    <2>1. \A kinds : \A o \in Ops, g \in Handles : Todo(o, g, kinds)' <=> Todo(o, g, kinds)
      BY <1>2, <1>a, <1>b DEF Todo
    <2>2. \A o \in Ops : ~Idle(o) => op[o].handle \in Handles
      BY DEF HInv, OpInv
    <2> QED BY <1>1, <1>2, <1>a, <1>b, <2>1, <2>2 DEF HInv, SeenInv, Idle
  <1>8. SnapInv'
    <2>1. ASSUME Smooth, NEW g \in Handles, g # h PROVE Snap(g)'
      BY <1>2, <1>a, <1>b, <2>1 DEF HInv, SnapInv, Snap
    <2> QED BY <1>1, <2>1 DEF SnapInv
  <1>9. DeletionInv'
    <2>1. ASSUME Smooth, NEW g \in Handles, g # h PROVE Deletion(g)'
      <3>1. Quiet(g) => ~handle[h].doc
        BY <2>1 DEF Quiet, Others
      <3> QED BY <1>2, <1>a, <1>b, <1>3, <2>1, <3>1 DEF HInv, DeletionInv, Deletion
    <2> QED BY <1>1, <2>1 DEF DeletionInv
  <1>10. OneRename'
    BY <1>2, <1>a, <1>b DEF HInv, OneRename, RenameOf, Idle
  <1>11. NameInv'
    <2>1. ASSUME Smooth, UNCHANGED failures, NEW g \in Handles PROVE Named(g)'
      <3>1. \A o : RenameOf(o, g)' <=> RenameOf(o, g)
        BY <1>2, <1>a, <1>b DEF RenameOf, Idle
      <3> QED BY <1>2, <1>a, <1>b, <1>3, <2>1, <3>1 DEF HInv, NameInv, Named
    <2> QED BY <1>1, <2>1 DEF NameInv
  <1> QED BY <1>4, <1>5, <1>6, <1>7, <1>8, <1>9, <1>10, <1>11 DEF HInv

\* The last close begins.
LEMMA CleanupBeginKeeps == ASSUME HInv, NEW h \in Handles, CleanupBegin(h) PROVE HInv'
  <1>1. /\ UNCHANGED <<file, shc, op, requests, copied, draining, issued, failures>>
        /\ handle[h].phase = "open"
        /\ handle[h] \in HandleRec /\ cleanup[h] \in CleanupRec /\ shc[h] \in ShcRec
    BY DEF CleanupBegin, HInv, ObjectTypes
  <1>2. PICK passive \in BOOLEAN :
          cleanup' = [cleanup EXCEPT ![h].snap = shc[h].flags, ![h].passive = passive]
    BY DEF CleanupBegin
  <1>3. PICK calm \in BOOLEAN, phase \in {"resolve", "fs"} :
          /\ handle' = [handle EXCEPT ![h].calm = calm, ![h].phase = phase]
          /\ calm <=> ~InFlight(h)
          /\ phase = "resolve" <=> /\ handle[h].hooked /\ ~draining
                                   /\ "BACKED_UP" \notin shc[h].flags
                                   /\ Eligible(shc[h].flags) \/ shc[h].observed
    <2> DEFINE go == /\ handle[h].hooked /\ ~draining /\ "BACKED_UP" \notin shc[h].flags
                     /\ Eligible(shc[h].flags) \/ shc[h].observed
    <2>1. handle' = [handle EXCEPT ![h].calm = ~InFlight(h),
                                   ![h].phase = IF go THEN "resolve" ELSE "fs"]
      BY DEF CleanupBegin
    <2>2. (~InFlight(h)) \in BOOLEAN
      OBVIOUS
    <2> HIDE DEF go
    <2>3. (IF go THEN "resolve" ELSE "fs") \in {"resolve", "fs"}
          /\ ((IF go THEN "resolve" ELSE "fs") = "resolve" <=> go)
      OBVIOUS
    <2>4. PICK phase \in {"resolve", "fs"} : /\ phase = IF go THEN "resolve" ELSE "fs"
                                             /\ phase = "resolve" <=> go
      BY <2>3
    <2>5. handle' = [handle EXCEPT ![h].calm = ~InFlight(h), ![h].phase = phase]
      BY <2>1, <2>4
    <2> QED BY <2>2, <2>4, <2>5 DEF go
  <1>4. /\ ObjectTypes'
        /\ handle'[h].phase = phase /\ handle'[h].calm = calm
        /\ handle'[h].hooked = handle[h].hooked /\ handle'[h].doc = handle[h].doc
        /\ handle'[h].wrote = handle[h].wrote /\ handle'[h].did = handle[h].did
        /\ handle'[h].raced = handle[h].raced /\ handle'[h].asked = handle[h].asked
        /\ cleanup'[h].snap = shc[h].flags /\ cleanup'[h].name = cleanup[h].name
        /\ cleanup'[h].queried = cleanup[h].queried
        /\ cleanup'[h].completion = cleanup[h].completion
        /\ \A g \in Handles : g # h => handle'[g] = handle[g] /\ cleanup'[g] = cleanup[g]
    <2>1. [handle[h] EXCEPT !.calm = calm, !.phase = phase] \in HandleRec
      BY <1>1 DEF HandleRec, Phases, Closing
    <2>2. [cleanup[h] EXCEPT !.snap = shc[h].flags, !.passive = passive] \in CleanupRec
      BY <1>1 DEF CleanupRec, ShcRec
    <2>3. /\ handle' = [handle EXCEPT ![h] = [handle[h] EXCEPT !.calm = calm, !.phase = phase]]
          /\ cleanup' = [cleanup EXCEPT ![h] = [cleanup[h] EXCEPT !.snap = shc[h].flags,
                                                                 !.passive = passive]]
      BY <1>2, <1>3 DEF HInv, ObjectTypes
    <2> QED BY <1>1, <2>1, <2>2, <2>3 DEF HInv, ObjectTypes, HandleRec, CleanupRec
  <1>5. OtherTypes'
    BY <1>1 DEF HInv, OtherTypes
  <1>6. Closes(h)
    BY <1>1, <1>3, <1>4 DEF Closes, Early
  <1>7. FileInv'
    BY <1>1, <1>4 DEF HInv, FileInv
  <1>8. Place(h)'
    <2>1. phase = "resolve" => Reason(h)
      <3>1. /\ "MODIFIED" \in shc[h].flags => handle[h].wrote \/ handle[h].doc
            /\ "DELETE_ON_CLOSE" \in shc[h].flags =>
                  handle[h].doc \/ "delete" \in handle[h].did
            /\ shc[h].observed => handle[h].did \intersect Dispositions # {}
        BY DEF HInv, ContextInv
      <3>2. Eligible(shc[h].flags) =>
               "MODIFIED" \in shc[h].flags \/ "DELETE_ON_CLOSE" \in shc[h].flags
        BY DEF Eligible
      <3> QED BY <1>3, <3>1, <3>2 DEF Reason, Dispositions
    <2>2. /\ cleanup[h].name = NoName /\ ~cleanup[h].queried /\ ~cleanup[h].completion
          /\ handle[h].asked = 0
      BY <1>1 DEF HInv, PlaceInv, Place, Early
    <2>3. Reason(h)' <=> Reason(h)
      BY <1>4 DEF Reason
    <2>4. phase = "resolve" => handle[h].hooked
      BY <1>3
    <2> QED BY <1>4, <2>1, <2>2, <2>3, <2>4 DEF Place, Early
  <1>9. ASSUME Smooth PROVE Snap(h)' /\ Deletion(h)'
    <2>1. handle[h].hooked /\ calm =>
             /\ handle[h].wrote => "MODIFIED" \in shc[h].flags
             /\ handle[h].doc => "DELETE_ON_CLOSE" \in shc[h].flags
      <3>1. calm => \A kinds : \A o \in Ops : ~Todo(o, h, kinds)
        BY <1>3 DEF InFlight, Todo, Idle
      <3> QED BY <1>9, <3>1 DEF HInv, SeenInv, ContextInv
    <2>2. "BACKED_UP" \notin shc[h].flags /\ ~draining
      BY <1>1, <1>9 DEF HInv, ContextInv, Early, Smooth
    <2>3. handle[h].hooked /\ calm /\ handle[h].wrote => phase = "resolve"
      BY <1>3, <2>1, <2>2 DEF Eligible
    <2>4. ~cleanup'[h].queried
      BY <1>1, <1>4 DEF HInv, PlaceInv, Place, Early
    <2> QED BY <1>3, <1>4, <2>1, <2>3, <2>4 DEF Snap, Deletion
  <1>10. cleanup'[h].name = NoName
    BY <1>1, <1>4 DEF HInv, PlaceInv, Place, Early
  <1> QED BY <1>4, <1>5, <1>6, <1>7, <1>8, <1>9, <1>10, CloseKeeps

\* The final name is looked up.
LEMMA ResolveKeeps == ASSUME HInv, NEW h \in Handles, Resolve(h) PROVE HInv'
  <1>1. /\ UNCHANGED <<file, shc, op, requests, copied, draining, issued>>
        /\ handle[h].phase = "resolve"
        /\ handle[h] \in HandleRec /\ cleanup[h] \in CleanupRec /\ shc[h] \in ShcRec
        /\ file.name \in Names
    BY DEF Resolve, HInv, ObjectTypes, FileRec
  <1>2. PICK current \in {shc[h].current, NoName}, live \in {file.name, NoName},
             name \in Names \union {NoName}, phase \in {"fs", "query"} :
          /\ IF current = shc[h].current /\ live = file.name THEN UNCHANGED failures ELSE Fail
          /\ name = FinalName(h, current, live)
          /\ cleanup' = [cleanup EXCEPT ![h].name = name, ![h].live = file.name]
          /\ handle' = [handle EXCEPT ![h].phase = phase]
          /\ phase = "fs" <=> name = NoName \/ (cleanup[h].passive /\ name \in Excluded)
    <2>1. PICK current \in {shc[h].current, NoName}, live \in {file.name, NoName} :
            /\ IF current = shc[h].current /\ live = file.name THEN UNCHANGED failures ELSE Fail
            /\ cleanup' = [cleanup EXCEPT ![h].name = FinalName(h, current, live),
                                          ![h].live = file.name]
            /\ handle' = [handle EXCEPT ![h].phase =
                   IF \/ FinalName(h, current, live) = NoName
                      \/ cleanup[h].passive /\ FinalName(h, current, live) \in Excluded
                   THEN "fs" ELSE "query"]
      BY DEF Resolve, SetPhase
    <2>2. FinalName(h, current, live) \in Names \union {NoName}
      BY <1>1 DEF FinalName, ShcRec
    <2>3. PICK name \in Names \union {NoName} : name = FinalName(h, current, live)
      BY <2>2
    <2>4. PICK phase \in {"fs", "query"} :
             phase = IF name = NoName \/ (cleanup[h].passive /\ name \in Excluded)
                     THEN "fs" ELSE "query"
      OBVIOUS
    <2>5. phase = "fs" <=> name = NoName \/ (cleanup[h].passive /\ name \in Excluded)
      BY <2>4
    <2>6. handle' = [handle EXCEPT ![h].phase = phase]
      BY <2>1, <2>3, <2>4
    <2> QED BY <2>1, <2>3, <2>5, <2>6
  <1>3. name \in Names \union {NoName}
    OBVIOUS
  <1>4. /\ ObjectTypes'
        /\ handle'[h].phase = phase /\ handle'[h].calm = handle[h].calm
        /\ handle'[h].hooked = handle[h].hooked /\ handle'[h].doc = handle[h].doc
        /\ handle'[h].wrote = handle[h].wrote /\ handle'[h].did = handle[h].did
        /\ handle'[h].raced = handle[h].raced /\ handle'[h].asked = handle[h].asked
        /\ cleanup'[h].name = name /\ cleanup'[h].live = file.name
        /\ cleanup'[h].snap = cleanup[h].snap /\ cleanup'[h].passive = cleanup[h].passive
        /\ cleanup'[h].queried = cleanup[h].queried
        /\ cleanup'[h].completion = cleanup[h].completion
        /\ \A g \in Handles : g # h => handle'[g] = handle[g] /\ cleanup'[g] = cleanup[g]
    <2>1. [handle[h] EXCEPT !.phase = phase] \in HandleRec
      BY <1>1 DEF HandleRec, Phases, Closing
    <2>2. [cleanup[h] EXCEPT !.name = name, !.live = file.name] \in CleanupRec
      BY <1>1, <1>3 DEF CleanupRec
    <2>3. /\ handle' = [handle EXCEPT ![h] = [handle[h] EXCEPT !.phase = phase]]
          /\ cleanup' = [cleanup EXCEPT ![h] = [cleanup[h] EXCEPT !.name = name,
                                                                 !.live = file.name]]
      BY <1>2 DEF HInv, ObjectTypes
    <2> QED BY <1>1, <2>1, <2>2, <2>3 DEF HInv, ObjectTypes, HandleRec, CleanupRec
  <1>5. Fail \/ UNCHANGED failures
    BY <1>2
  <1>6. OtherTypes'
    BY <1>1, <1>5, SmoothBack DEF HInv, OtherTypes
  <1>7. Closes(h)
    BY <1>1, <1>2, <1>4, <1>5 DEF Closes, Early
  <1>8. FileInv'
    BY <1>1, <1>4 DEF HInv, FileInv
  <1>9. Place(h)'
    BY <1>1, <1>2, <1>3, <1>4, HandleCaptureAssumption DEF HInv, PlaceInv, Place, Early, Reason
  <1>10. ASSUME Smooth, UNCHANGED failures
         PROVE  /\ Snap(h)' /\ Deletion(h)'
                /\ Renamer(h) /\ handle'[h].calm => name = file.name
    <2>1. failures \in Nat
      BY DEF HInv, OtherTypes
    <2>2. current = shc[h].current /\ live = file.name
      BY <1>2, <1>10, <2>1 DEF Fail
    <2>3. name # NoName
      BY <1>1, <1>2, <2>2, HandleCaptureAssumption DEF FinalName
    <2>4. ~cleanup'[h].queried
      BY <1>1, <1>4 DEF HInv, PlaceInv, Place, Early
    <2>5. phase = "fs" => name \in Excluded
      BY <1>2, <2>3
    <2>6. Snap(h)'
      BY <1>1, <1>2, <1>4, <1>10, <2>5 DEF HInv, SnapInv, Snap
    <2>7. Deletion(h)'
      BY <1>1, <1>4, <2>4 DEF Deletion
    <2>8. ASSUME Renamer(h), handle[h].calm PROVE name = file.name
      <3>1. shc[h].current = NoName \/ shc[h].current = file.name
        <4>1. \A o \in Ops : RenameOf(o, h) => ~handle[h].calm
          BY DEF HInv, OpInv, RenameOf
        <4> QED BY <1>10, <2>8, <4>1 DEF HInv, NameInv, Named
      <3> QED BY <1>1, <1>2, <2>2, <3>1, HandleCaptureAssumption DEF FinalName
    <2> QED BY <1>4, <2>6, <2>7, <2>8
  <1> QED BY <1>4, <1>6, <1>7, <1>8, <1>9, <1>10, CloseKeeps

\* Whether the deletion is queried and what is left to do.
LEMMA QueryKeeps == ASSUME HInv, NEW h \in Handles, Query(h) PROVE HInv'
  <1>1. /\ UNCHANGED <<file, shc, op, copied, draining, issued>>
        /\ handle[h].phase = "query"
        /\ handle[h] \in HandleRec /\ cleanup[h] \in CleanupRec
    BY DEF Query, HInv, ObjectTypes
  <1>2. /\ handle[h].asked = 0 /\ ~cleanup[h].queried /\ ~cleanup[h].completion
        /\ cleanup[h].name \in Names /\ handle[h].hooked /\ Reason(h)
    BY <1>1 DEF HInv, PlaceInv, Place
  <1>3. PICK queried \in {FALSE, cleanup[h].passive}, completion \in BOOLEAN,
             snap \in SUBSET Flags :
          /\ snap = IF queried THEN Reconcile(h, cleanup[h].snap) ELSE cleanup[h].snap
          /\ completion => Later(snap)
          /\ IF Later(snap) /\ ~completion THEN Fail ELSE UNCHANGED failures
          /\ cleanup' = [cleanup EXCEPT ![h].snap = snap, ![h].queried = queried,
                                        ![h].completion = completion]
          /\ IF "DELETE_ON_CLOSE" \in snap /\ ~cleanup[h].passive
             THEN /\ requests' = requests \union {[handle |-> h, name |-> cleanup[h].name]}
                  /\ handle' = [handle EXCEPT ![h].phase = "fs", ![h].asked = handle[h].asked + 1]
             ELSE /\ handle' = [handle EXCEPT ![h].phase =
                        IF "DELETE_ON_CLOSE" \in snap THEN "sync" ELSE "fs"]
                  /\ UNCHANGED requests
    <2>1. \A queried \in {FALSE, cleanup[h].passive} :
             (IF queried THEN Reconcile(h, cleanup[h].snap) ELSE cleanup[h].snap)
             \in SUBSET Flags
      BY <1>1 DEF Reconcile, CleanupRec, Flags
    <2> QED BY <2>1 DEF Query, SetPhase
  <1>4. snap \in SUBSET Flags /\ queried \in BOOLEAN
    BY <1>1, <1>3 DEF Reconcile, CleanupRec, Flags
  <1>5. PICK phase \in {"fs", "sync"}, asked \in {0, 1} :
          /\ handle' = [handle EXCEPT ![h] = [handle[h] EXCEPT !.phase = phase, !.asked = asked]]
          /\ "DELETE_ON_CLOSE" \notin snap => phase = "fs" /\ asked = 0
          /\ "DELETE_ON_CLOSE" \in snap /\ cleanup[h].passive => phase = "sync" /\ asked = 0
          /\ "DELETE_ON_CLOSE" \in snap /\ ~cleanup[h].passive => phase = "fs" /\ asked = 1
    <2>1. CASE "DELETE_ON_CLOSE" \in snap /\ ~cleanup[h].passive
      <3>1. handle' = [handle EXCEPT ![h] = [handle[h] EXCEPT !.phase = "fs", !.asked = 1]]
        <4>1. handle' = [handle EXCEPT ![h].phase = "fs", ![h].asked = 1]
          BY <1>2, <1>3, <2>1
        <4> QED BY <4>1 DEF HInv, ObjectTypes
      <3> QED BY <2>1, <3>1
    <2>2. CASE "DELETE_ON_CLOSE" \in snap /\ cleanup[h].passive
      <3>1. handle' = [handle EXCEPT ![h] = [handle[h] EXCEPT !.phase = "sync", !.asked = 0]]
        BY <1>1, <1>2, <1>3, <2>2 DEF HInv, ObjectTypes, HandleRec
      <3> QED BY <2>2, <3>1
    <2>3. CASE "DELETE_ON_CLOSE" \notin snap
      <3>1. handle' = [handle EXCEPT ![h] = [handle[h] EXCEPT !.phase = "fs", !.asked = 0]]
        BY <1>1, <1>2, <1>3, <2>3 DEF HInv, ObjectTypes, HandleRec
      <3> QED BY <2>3, <3>1
    <2> QED BY <2>1, <2>2, <2>3
  <1>6. /\ ObjectTypes'
        /\ handle'[h].phase = phase /\ handle'[h].calm = handle[h].calm
        /\ handle'[h].hooked = handle[h].hooked /\ handle'[h].doc = handle[h].doc
        /\ handle'[h].wrote = handle[h].wrote /\ handle'[h].did = handle[h].did
        /\ handle'[h].raced = handle[h].raced /\ handle'[h].asked = asked
        /\ cleanup'[h].name = cleanup[h].name /\ cleanup'[h].live = cleanup[h].live
        /\ cleanup'[h].snap = snap /\ cleanup'[h].passive = cleanup[h].passive
        /\ cleanup'[h].queried = queried
        /\ cleanup'[h].completion = completion
        /\ \A g \in Handles : g # h => handle'[g] = handle[g] /\ cleanup'[g] = cleanup[g]
    <2>1. [handle[h] EXCEPT !.phase = phase, !.asked = asked] \in HandleRec
      BY <1>1 DEF HandleRec, Phases, Closing
    <2>2. [cleanup[h] EXCEPT !.snap = snap, !.queried = queried, !.completion = completion]
          \in CleanupRec
      BY <1>1, <1>4 DEF CleanupRec
    <2>3. cleanup' = [cleanup EXCEPT ![h] = [cleanup[h] EXCEPT !.snap = snap,
                                       !.queried = queried, !.completion = completion]]
      BY <1>3 DEF HInv, ObjectTypes
    <2> QED BY <1>1, <1>5, <2>1, <2>2, <2>3 DEF HInv, ObjectTypes, HandleRec, CleanupRec
  <1>7. Fail \/ UNCHANGED failures
    BY <1>3
  <1>8. OtherTypes'
    <2>1. [handle |-> h, name |-> cleanup[h].name] \in [handle : Handles, name : Names]
      BY <1>2
    <2> QED BY <1>1, <1>3, <1>7, <2>1, SmoothBack DEF HInv, OtherTypes
  <1>9. Closes(h)
    BY <1>1, <1>6, <1>7 DEF Closes, Early
  <1>10. FileInv'
    BY <1>1, <1>6 DEF HInv, FileInv
  <1>11. Place(h)'
    <2>1. Reason(h)'
      BY <1>2, <1>6 DEF Reason
    <2>2. queried => cleanup[h].passive
      BY <1>3
    <2>3. completion => "DELETE_ON_CLOSE" \notin snap
      BY <1>3 DEF Later
    <2>4. handle[h].calm => handle[h].phase \notin Early
      BY DEF HInv, PlaceInv, Place
    <2> QED BY <1>2, <1>5, <1>6, <2>1, <2>2, <2>3, <2>4 DEF Place, Early
  <1>12. ASSUME Smooth, UNCHANGED failures
         PROVE  /\ Snap(h)' /\ Deletion(h)'
                /\ Renamer(h) /\ handle'[h].calm => cleanup[h].name = cleanup[h].live
    <2>1. Later(snap) => completion
      BY <1>3, <1>12 DEF Fail, HInv, OtherTypes
    <2>2. ASSUME handle[h].calm, handle[h].wrote PROVE "MODIFIED" \in snap
      <3>1. "MODIFIED" \in cleanup[h].snap
        BY <1>1, <1>2, <1>12, <2>2 DEF HInv, SnapInv, Snap
      <3> QED BY <1>3, <3>1 DEF Reconcile
    <2>3. Snap(h)'
      BY <1>5, <1>6, <2>1, <2>2 DEF Snap, Later, Eligible
    <2>4. ASSUME handle[h].calm, Quiet(h), Kept(h), queried, file.pending \/ handle[h].doc
          PROVE  "DELETE_ON_CLOSE" \in snap
      <3>1. snap = Reconcile(h, cleanup[h].snap)
        BY <1>3, <2>4
      <3>2. "delete" \in handle[h].did => shc[h].observed
        <4>1. \A o \in Ops : ~Todo(o, h, {"delete"})
          BY <2>4 DEF HInv, OpInv, Todo, Idle
        <4> QED BY <1>2, <1>12, <4>1 DEF HInv, SeenInv
      <3>3. CASE shc[h].observed
        <4>1. handle[h].doc => file.pending
          <5>1. handle[h].doc => "delete" \in handle[h].did
            BY <2>4, <3>3 DEF HInv, ContextInv, Dispositions, Kept
          <5> QED BY <2>4, <5>1 DEF HInv, FileInv, Kept
        <4> QED BY <2>4, <3>1, <3>3, <4>1 DEF Reconcile
      <3>4. CASE ~shc[h].observed
        <4>1. handle[h].doc
          <5>1. ASSUME file.pending PROVE handle[h].doc
            <6>1. PICK g \in Handles : "delete" \in handle[g].did \/ handle[g].doc
              BY <5>1 DEF HInv, FileInv
            <6>2. g = h
              BY <2>4, <6>1 DEF Quiet, Others
            <6> QED BY <3>2, <3>4, <6>1, <6>2
          <5> QED BY <2>4, <5>1
        <4>2. "DELETE_ON_CLOSE" \in cleanup[h].snap
          BY <1>1, <1>2, <1>12, <2>4, <4>1 DEF HInv, SnapInv, Snap
        <4> QED BY <3>1, <3>4, <4>2 DEF Reconcile
      <3> QED BY <3>3, <3>4
    <2>5. Deletion(h)'
      <3>1. (Quiet(h)' <=> Quiet(h)) /\ (Kept(h)' <=> Kept(h))
        BY <1>6 DEF Quiet, Kept, Others
      <3>2. handle[h].calm /\ Quiet(h) /\ Kept(h) => file.name = cleanup[h].live
        BY <1>1, <1>2, <1>12 DEF HInv, DeletionInv, Deletion
      <3>3. queried /\ "DELETE_ON_CLOSE" \in snap => phase = "sync"
        BY <1>3, <1>5
      <3> QED BY <1>1, <1>5, <1>6, <2>4, <3>1, <3>2, <3>3 DEF Deletion
    <2>6. Renamer(h) /\ handle[h].calm => cleanup[h].name = cleanup[h].live
      BY <1>2, <1>12, HandleCaptureAssumption DEF HInv, NameInv, Named
    <2> QED BY <1>6, <2>3, <2>5, <2>6
  <1> QED BY <1>6, <1>8, <1>9, <1>10, <1>11, <1>12, CloseKeeps

\* The synchronous send, or its fallback.
LEMMA SendSyncKeeps == ASSUME HInv, NEW h \in Handles, SendSync(h) PROVE HInv'
  <1>1. /\ UNCHANGED <<file, cleanup, op, draining, issued>>
        /\ handle[h].phase = "sync"
        /\ handle[h] \in HandleRec /\ cleanup[h] \in CleanupRec /\ shc[h] \in ShcRec
        /\ shc' = [shc EXCEPT ![h].flags = shc[h].flags \union {"BACKED_UP"}]
        /\ handle' = [handle EXCEPT ![h].phase = "fs", ![h].asked = handle[h].asked + 1]
        /\ \/ /\ copied' = IF cleanup[h].name = file.name THEN copied \union {h} ELSE copied
              /\ UNCHANGED <<requests, failures>>
           \/ /\ Fail
              /\ requests' = requests \union {[handle |-> h, name |-> cleanup[h].name]}
              /\ UNCHANGED copied
    BY DEF SendSync, HInv, ObjectTypes
  <1>2. /\ handle[h].asked = 0 /\ ~cleanup[h].completion
        /\ cleanup[h].name \in Names /\ handle[h].hooked /\ Reason(h)
    BY <1>1 DEF HInv, PlaceInv, Place
  <1>3. /\ ObjectTypes'
        /\ handle'[h].phase = "fs" /\ handle'[h].calm = handle[h].calm
        /\ handle'[h].hooked = handle[h].hooked /\ handle'[h].doc = handle[h].doc
        /\ handle'[h].wrote = handle[h].wrote /\ handle'[h].did = handle[h].did
        /\ handle'[h].raced = handle[h].raced /\ handle'[h].asked = 1
        /\ shc'[h].flags = shc[h].flags \union {"BACKED_UP"}
        /\ shc'[h].observed = shc[h].observed /\ shc'[h].doc = shc[h].doc
        /\ shc'[h].current = shc[h].current
        /\ \A g \in Handles : g # h => handle'[g] = handle[g] /\ shc'[g] = shc[g]
    <2>1. [handle[h] EXCEPT !.phase = "fs", !.asked = 1] \in HandleRec
      BY <1>1 DEF HandleRec, Phases, Closing
    <2>2. [shc[h] EXCEPT !.flags = shc[h].flags \union {"BACKED_UP"}] \in ShcRec
      BY <1>1 DEF ShcRec, Flags
    <2>3. /\ handle' = [handle EXCEPT ![h] = [handle[h] EXCEPT !.phase = "fs", !.asked = 1]]
          /\ shc' = [shc EXCEPT ![h] =
                        [shc[h] EXCEPT !.flags = shc[h].flags \union {"BACKED_UP"}]]
      <3>1. handle' = [handle EXCEPT ![h].phase = "fs", ![h].asked = 1]
        BY <1>1, <1>2
      <3> QED BY <1>1, <3>1 DEF HInv, ObjectTypes
    <2> QED BY <1>1, <2>1, <2>2, <2>3 DEF HInv, ObjectTypes, HandleRec, ShcRec
  <1>4. Fail \/ UNCHANGED failures
    BY <1>1
  <1>5. OtherTypes'
    <2>1. [handle |-> h, name |-> cleanup[h].name] \in [handle : Handles, name : Names]
      BY <1>2
    <2> QED BY <1>1, <1>4, <2>1, SmoothBack DEF HInv, OtherTypes
  <1>6. Closes(h)
    <2>1. copied \subseteq copied'
      BY <1>1
    <2> QED BY <1>1, <1>3, <1>4, <2>1 DEF Closes, Early
  <1>7. FileInv'
    <2>1. \A g \in Handles : handle'[g].did = handle[g].did /\ handle'[g].doc = handle[g].doc
      BY <1>3
    <2>2. file' = file
      BY <1>1
    <2> QED BY <2>1, <2>2 DEF HInv, FileInv
  <1>8. Place(h)'
    <2>1. Reason(h)'
      BY <1>2, <1>3 DEF Reason
    <2>2. cleanup[h].queried => cleanup[h].passive
      BY DEF HInv, PlaceInv, Place
    <2> QED BY <1>1, <1>2, <1>3, <2>1, <2>2 DEF Place, Early
  <1>9. ASSUME Smooth, UNCHANGED failures
        PROVE  /\ Snap(h)' /\ Deletion(h)'
               /\ Renamer(h) /\ handle'[h].calm => cleanup[h].name = cleanup[h].live
    <2>1. copied' = IF cleanup[h].name = file.name THEN copied \union {h} ELSE copied
      BY <1>1, <1>9 DEF Fail, HInv, OtherTypes
    <2>2. (Quiet(h)' <=> Quiet(h)) /\ (Kept(h)' <=> Kept(h))
      BY <1>3 DEF Quiet, Kept, Others
    <2>3. Deletion(h)'
      BY <1>1, <1>2, <1>3, <1>9, <2>1, <2>2 DEF HInv, DeletionInv, Deletion
    <2>4. Snap(h)'
      BY <1>3 DEF Snap
    <2>5. Renamer(h) /\ handle[h].calm => cleanup[h].name = cleanup[h].live
      BY <1>2, <1>9, HandleCaptureAssumption DEF HInv, NameInv, Named
    <2> QED BY <1>3, <2>3, <2>4, <2>5
  <1> QED BY <1>1, <1>3, <1>5, <1>6, <1>7, <1>8, <1>9, CloseKeeps

\* The file system's cleanup.
LEMMA FsCleanupKeeps == ASSUME HInv, NEW h \in Handles, FsCleanup(h) PROVE HInv'
  <1>1. /\ UNCHANGED <<shc, cleanup, op, requests, copied, draining, issued, failures>>
        /\ handle[h].phase = "fs"
        /\ handle[h] \in HandleRec /\ file \in FileRec
    BY DEF FsCleanup, HInv, ObjectTypes
  <1>2. PICK phase \in {"post", "closed"} :
          /\ handle' = [handle EXCEPT ![h].phase = phase]
          /\ phase = "post" <=> cleanup[h].completion
    <2>1. handle' = [handle EXCEPT ![h].phase =
                        IF cleanup[h].completion THEN "post" ELSE "closed"]
      BY DEF FsCleanup, SetPhase
    <2>2. CASE cleanup[h].completion
      <3>1. handle' = [handle EXCEPT ![h].phase = "post"]
        BY <2>1, <2>2
      <3> QED BY <2>2, <3>1
    <2>3. CASE ~cleanup[h].completion
      <3>1. handle' = [handle EXCEPT ![h].phase = "closed"]
        BY <2>1, <2>3
      <3> QED BY <2>3, <3>1
    <2> QED BY <2>2, <2>3
  <1>3. PICK pending \in BOOLEAN, onDisk \in BOOLEAN :
          /\ file' = [file EXCEPT !.pending = pending, !.onDisk = onDisk]
          /\ pending <=> file.pending \/ handle[h].doc
          /\ ~onDisk => ~file.onDisk \/ pending
    <2> DEFINE p == file.pending \/ handle[h].doc
               d == file.onDisk /\ ~(p /\ \A g \in Handles \ {h} : ~Holding(g))
    <2>1. file' = [file EXCEPT !.pending = p, !.onDisk = d]
      BY DEF FsCleanup
    <2>2. p \in BOOLEAN /\ d \in BOOLEAN
      OBVIOUS
    <2> QED BY <2>1, <2>2
  <1>4. /\ ObjectTypes'
        /\ handle'[h].phase = phase /\ handle'[h].calm = handle[h].calm
        /\ handle'[h].hooked = handle[h].hooked /\ handle'[h].doc = handle[h].doc
        /\ handle'[h].wrote = handle[h].wrote /\ handle'[h].did = handle[h].did
        /\ handle'[h].raced = handle[h].raced /\ handle'[h].asked = handle[h].asked
        /\ \A g \in Handles : g # h => handle'[g] = handle[g]
        /\ file'.name = file.name /\ file'.pending = pending /\ file'.onDisk = onDisk
    <2>1. [handle[h] EXCEPT !.phase = phase] \in HandleRec
      BY <1>1 DEF HandleRec, Phases, Closing
    <2>2. [file EXCEPT !.pending = pending, !.onDisk = onDisk] \in FileRec
      BY <1>1 DEF FileRec
    <2> QED BY <1>1, <1>2, <1>3, <2>1, <2>2 DEF HInv, ObjectTypes, HandleRec, FileRec
  <1>5. OtherTypes'
    BY <1>1 DEF HInv, OtherTypes
  <1>6. Closes(h)
    BY <1>1, <1>3, <1>4 DEF Closes, Early
  <1>7. FileInv'
    <2>1. \A g \in Handles : handle'[g].did = handle[g].did /\ handle'[g].doc = handle[g].doc
      BY <1>4
    <2> QED BY <1>3, <1>4, <2>1 DEF HInv, FileInv
  <1>8. Place(h)'
    <2>1. Reason(h)' <=> Reason(h)
      BY <1>4 DEF Reason
    <2> QED BY <1>1, <1>2, <1>4, <2>1 DEF HInv, PlaceInv, Place, Early
  <1>9. ASSUME Smooth PROVE Snap(h)' /\ Deletion(h)'
    <2>1. Snap(h)'
      BY <1>1, <1>2, <1>4, <1>9 DEF HInv, PlaceInv, Place, SnapInv, Snap
    <2>2. (Quiet(h)' <=> Quiet(h)) /\ (Kept(h)' <=> Kept(h))
      BY <1>4 DEF Quiet, Kept, Others
    <2>3. Deletion(h)'
      BY <1>1, <1>2, <1>3, <1>4, <1>9, <2>2 DEF HInv, DeletionInv, Deletion
    <2> QED BY <2>1, <2>3
  <1>10. ASSUME Smooth, Renamer(h), handle[h].calm, cleanup[h].name # NoName
         PROVE  cleanup[h].name = cleanup[h].live
    BY <1>10 DEF HInv, NameInv, Named
  <1> QED BY <1>1, <1>4, <1>5, <1>6, <1>7, <1>8, <1>9, <1>10, CloseKeeps

\* What was left to the post callback.
LEMMA PostCleanupKeeps == ASSUME HInv, NEW h \in Handles, PostCleanup(h) PROVE HInv'
  <1>1. /\ UNCHANGED <<file, shc, cleanup, op, copied, draining, issued, failures>>
        /\ handle[h].phase = "post" /\ handle[h] \in HandleRec
        /\ requests' = IF draining THEN requests
                       ELSE requests \union {[handle |-> h, name |-> cleanup[h].name]}
    BY DEF PostCleanup, HInv, ObjectTypes
  <1>2. /\ handle[h].asked = 0 /\ cleanup[h].name \in Names /\ handle[h].hooked /\ Reason(h)
    BY <1>1 DEF HInv, PlaceInv, Place
  <1>3. PICK asked \in {0, 1} :
          /\ handle' = [handle EXCEPT ![h] = [handle[h] EXCEPT !.phase = "closed",
                                                              !.asked = asked]]
          /\ ~draining => asked = 1
    <2>1. handle' = [handle EXCEPT ![h].phase = "closed",
                       ![h].asked = IF draining THEN handle[h].asked ELSE handle[h].asked + 1]
      BY DEF PostCleanup
    <2>2. PICK asked \in {0, 1} :
            /\ asked = IF draining THEN handle[h].asked ELSE handle[h].asked + 1
            /\ ~draining => asked = 1
      BY <1>2
    <2>3. handle' = [handle EXCEPT ![h].phase = "closed", ![h].asked = asked]
      BY <2>1, <2>2
    <2> QED BY <2>2, <2>3 DEF HInv, ObjectTypes
  <1>4. /\ ObjectTypes'
        /\ handle'[h].phase = "closed" /\ handle'[h].calm = handle[h].calm
        /\ handle'[h].hooked = handle[h].hooked /\ handle'[h].doc = handle[h].doc
        /\ handle'[h].wrote = handle[h].wrote /\ handle'[h].did = handle[h].did
        /\ handle'[h].raced = handle[h].raced /\ handle'[h].asked = asked
        /\ \A g \in Handles : g # h => handle'[g] = handle[g]
    <2>1. [handle[h] EXCEPT !.phase = "closed", !.asked = asked] \in HandleRec
      BY <1>1 DEF HandleRec, Phases, Closing
    <2> QED BY <1>1, <1>3, <2>1 DEF HInv, ObjectTypes, HandleRec
  <1>5. OtherTypes'
    <2>1. [handle |-> h, name |-> cleanup[h].name] \in [handle : Handles, name : Names]
      BY <1>2
    <2> QED BY <1>1, <2>1 DEF HInv, OtherTypes
  <1>6. Closes(h)
    BY <1>1, <1>4 DEF Closes, Early
  <1>7. FileInv'
    <2>1. \A g \in Handles : handle'[g].did = handle[g].did /\ handle'[g].doc = handle[g].doc
      BY <1>4
    <2> QED BY <1>1, <2>1 DEF HInv, FileInv
  <1>8. Place(h)'
    <2>1. Reason(h)'
      BY <1>2, <1>4 DEF Reason
    <2> QED BY <1>1, <1>2, <1>4, <2>1 DEF HInv, PlaceInv, Place, Early
  <1>9. ASSUME Smooth PROVE Snap(h)' /\ Deletion(h)'
    <2>1. Snap(h)'
      BY <1>3, <1>4, <1>9 DEF Snap, Smooth
    <2>2. (Quiet(h)' <=> Quiet(h)) /\ (Kept(h)' <=> Kept(h))
      BY <1>4 DEF Quiet, Kept, Others
    <2>3. Deletion(h)'
      BY <1>1, <1>4, <1>9, <2>2 DEF HInv, DeletionInv, Deletion
    <2> QED BY <2>1, <2>3
  <1>10. ASSUME Smooth, Renamer(h), handle[h].calm, cleanup[h].name # NoName
         PROVE  cleanup[h].name = cleanup[h].live
    BY <1>10 DEF HInv, NameInv, Named
  <1> QED BY <1>1, <1>4, <1>5, <1>6, <1>7, <1>8, <1>9, <1>10, CloseKeeps
-----------------------------------------------------------------------------

\* A handle is opened.
LEMMA OpenKeeps == ASSUME HInv, NEW h \in Handles, Open(h) PROVE HInv'
  <1>1. /\ handle[h].phase = "unopened" /\ ~file.pending /\ ~draining
        /\ handle[h] \in HandleRec
        /\ UNCHANGED <<file, cleanup, op, requests, copied, draining, issued>>
    BY DEF Open, HInv, ObjectTypes
  <1>2. PICK hooked \in BOOLEAN, replace \in BOOLEAN, doc \in BOOLEAN,
             original \in {file.name, NoName}, context \in ShcRec :
          /\ Fail \/ UNCHANGED failures
          /\ handle' = [handle EXCEPT ![h].phase = "open", ![h].hooked = hooked,
                                      ![h].doc = doc, ![h].wrote = replace]
          /\ shc' = [shc EXCEPT ![h] = context]
          /\ ~context.observed /\ context.current = NoName
          /\ context.doc => hooked
          /\ hooked => /\ context.flags = WriteIntent(replace, doc)
                       /\ context.doc = doc
          /\ ~hooked => context.flags = {}
    <2>1. PICK hooked \in BOOLEAN, replace \in BOOLEAN, doc \in BOOLEAN,
               original \in {file.name, NoName} :
            /\ IF original = NoName THEN Fail ELSE UNCHANGED failures
            /\ handle' = [handle EXCEPT ![h].phase = "open", ![h].hooked = hooked,
                                        ![h].doc = doc, ![h].wrote = replace]
            /\ shc' = [shc EXCEPT ![h] =
                  IF hooked THEN [flags |-> WriteIntent(replace, doc), observed |-> FALSE,
                                  doc |-> doc, current |-> NoName, original |-> original]
                            ELSE NoShc]
      BY DEF Open
    <2>2. WriteIntent(replace, doc) \in SUBSET Flags
      BY DEF WriteIntent, Flags
    <2>3. original \in Names \union {NoName}
      BY DEF HInv, ObjectTypes, FileRec
    <2>4. NoShc \in ShcRec
      BY DEF NoShc, ShcRec
    <2>5. CASE hooked
      <3> DEFINE context == [flags |-> WriteIntent(replace, doc), observed |-> FALSE,
                             doc |-> doc, current |-> NoName, original |-> original]
      <3>1. context \in ShcRec
        BY <2>2, <2>3 DEF ShcRec
      <3>2. shc' = [shc EXCEPT ![h] = context]
        BY <2>1, <2>5
      <3> QED BY <2>1, <2>5, <3>1, <3>2
    <2>6. CASE ~hooked
      <3>1. shc' = [shc EXCEPT ![h] = NoShc]
        BY <2>1, <2>6
      <3> QED BY <2>1, <2>4, <2>6, <3>1 DEF NoShc
    <2> QED BY <2>5, <2>6
  <1>3. /\ ObjectTypes'
        /\ handle'[h].phase = "open" /\ handle'[h].calm = handle[h].calm
        /\ handle'[h].hooked = hooked /\ handle'[h].doc = doc
        /\ handle'[h].wrote = replace /\ handle'[h].did = handle[h].did
        /\ handle'[h].raced = handle[h].raced /\ handle'[h].asked = handle[h].asked
        /\ shc'[h] = context
        /\ \A g \in Handles : g # h => handle'[g] = handle[g] /\ shc'[g] = shc[g]
    <2>1. [handle[h] EXCEPT !.phase = "open", !.hooked = hooked, !.doc = doc,
                            !.wrote = replace] \in HandleRec
      BY <1>1, <1>2 DEF HandleRec, Phases
    <2>2. handle' = [handle EXCEPT ![h] = [handle[h] EXCEPT !.phase = "open",
                        !.hooked = hooked, !.doc = doc, !.wrote = replace]]
      BY <1>2 DEF HInv, ObjectTypes
    <2> QED BY <1>1, <1>2, <2>1, <2>2 DEF HInv, ObjectTypes, HandleRec
  <1>4. Smooth' => Smooth
    BY <1>1, <1>2, SmoothBack
  <1>5. OtherTypes'
    BY <1>1, <1>2, SmoothBack DEF HInv, OtherTypes
  <1>6. \A o \in Ops : ~Idle(o) => op[o].handle # h
    BY <1>1 DEF HInv, OpInv
  <1>7. /\ ~handle[h].doc /\ handle[h].did = {} /\ ~handle[h].calm /\ handle[h].asked = 0
        /\ cleanup[h].name = NoName /\ ~cleanup[h].queried /\ ~cleanup[h].completion
    BY <1>1 DEF HInv, PlaceInv, Place, Early
  <1>8. OpInv'
    BY <1>1, <1>3, <1>6 DEF HInv, OpInv, Idle
  <1>9. ContextInv'
    <2>1. /\ "MODIFIED" \in context.flags => replace \/ doc
          /\ "DELETE_ON_CLOSE" \in context.flags => doc
          /\ context.doc => "DELETE_ON_CLOSE" \in context.flags
          /\ "BACKED_UP" \notin context.flags
      BY <1>2 DEF WriteIntent
    <2>2. \A g \in Handles : g # h => handle'[g] = handle[g] /\ shc'[g] = shc[g]
      BY <1>3
    <2>3. hooked => context.doc = doc
      BY <1>2
    <2>4. ~context.observed
      BY <1>2
    <2>5. /\ handle'[h].wrote = replace /\ handle'[h].doc = doc /\ handle'[h].hooked = hooked
          /\ shc'[h] = context
      BY <1>3
    <2>6. ASSUME NEW g \in Handles, g # h
          PROVE  /\ "MODIFIED" \in shc'[g].flags => handle'[g].wrote \/ handle'[g].doc
                 /\ "DELETE_ON_CLOSE" \in shc'[g].flags =>
                       handle'[g].doc \/ "delete" \in handle'[g].did
                 /\ shc'[g].observed => handle'[g].did \intersect Dispositions # {}
                 /\ handle'[g].hooked => shc'[g].doc = handle'[g].doc
                 /\ shc'[g].doc => "DELETE_ON_CLOSE" \in shc'[g].flags
                 /\ "BACKED_UP" \in shc'[g].flags => handle'[g].phase \notin Early
      BY <2>2, <2>6 DEF HInv, ContextInv
    <2> QED BY <2>1, <2>3, <2>4, <2>5, <2>6 DEF ContextInv
  <1>10. PlaceInv'
    <2>1. Place(h)'
      BY <1>1, <1>3, <1>7, HandleCaptureAssumption DEF Place, Early
    <2>2. ASSUME NEW g \in Handles, g # h PROVE Place(g)'
      BY <1>1, <1>3, <2>2 DEF HInv, PlaceInv, Place, Reason
    <2> QED BY <2>1, <2>2 DEF PlaceInv
  <1>11. SeenInv'
    <2>1. hooked /\ replace => "MODIFIED" \in context.flags
      BY <1>2 DEF WriteIntent
    <2>2. \A kinds : \A o \in Ops, g \in Handles : Todo(o, g, kinds)' <=> Todo(o, g, kinds)
      BY <1>1 DEF Todo
    <2>3. ASSUME Smooth, NEW g \in Handles, handle'[g].hooked
          PROVE  /\ handle'[g].wrote => \/ "MODIFIED" \in shc'[g].flags
                                        \/ \E o \in Ops : Todo(o, g, Effects)'
                 /\ "delete" \in handle'[g].did => \/ shc'[g].observed
                                                   \/ \E o \in Ops : Todo(o, g, {"delete"})'
      BY <1>3, <1>7, <2>1, <2>2, <2>3 DEF HInv, SeenInv
    <2>4. ASSUME Smooth, NEW o \in Ops, ~Idle(o), handle'[op[o].handle].hooked
          PROVE  op[o].hooked
      BY <1>3, <1>6, <2>4 DEF HInv, SeenInv, OpInv
    <2> QED BY <1>1, <1>4, <2>3, <2>4 DEF SeenInv, Idle
  <1>12. SnapInv'
    BY <1>1, <1>3, <1>4, <1>7 DEF HInv, SnapInv, Snap
  <1>13. FileInv'
    <2>1. \A g \in Handles : handle'[g].did = handle[g].did
      BY <1>3
    <2> QED BY <1>1, <2>1 DEF HInv, FileInv
  <1>14. DeletionInv'
    <2>1. ASSUME Smooth, NEW g \in Handles, g # h PROVE Deletion(g)'
      <3>1. (Quiet(g)' => Quiet(g)) /\ (Kept(g)' <=> Kept(g))
        BY <1>3, <1>7, <2>1 DEF Quiet, Kept, Others
      <3> QED BY <1>1, <1>3, <2>1, <3>1 DEF HInv, DeletionInv, Deletion
    <2> QED BY <1>3, <1>4, <1>7, <2>1 DEF DeletionInv, Deletion
  <1>15. OneRename'
    <2>1. \A g \in Handles : handle'[g].raced = handle[g].raced
      BY <1>3
    <2> QED BY <1>1, <2>1 DEF HInv, OneRename, RenameOf, Idle
  <1>16. NameInv'
    <2>1. ASSUME Smooth PROVE Named(h)'
      <3>1. \A o \in Ops : op[o].phase = "swap" => op[o].handle # h
        BY <1>6 DEF Idle
      <3> QED BY <1>1, <1>2, <1>3, <1>7, <3>1 DEF Named
    <2>2. ASSUME Smooth, NEW g \in Handles, g # h PROVE Named(g)'
      <3>1. Renamer(g)' <=> Renamer(g)
        BY <1>3, <2>2 DEF Renamer, Others
      <3>2. \A o \in Ops : RenameOf(o, g)' <=> RenameOf(o, g)
        BY <1>1 DEF RenameOf, Idle
      <3> QED BY <1>1, <1>3, <2>2, <3>1, <3>2 DEF HInv, NameInv, Named
    <2> QED BY <1>4, <2>1, <2>2 DEF NameInv
  <1> QED BY <1>3, <1>5, <1>8, <1>9, <1>10, <1>11, <1>12, <1>13, <1>14, <1>15, <1>16 DEF HInv
-----------------------------------------------------------------------------

\* An operation is issued.
LEMMA IssueKeeps == ASSUME HInv, NEW o \in Ops, Issue(o) PROVE HInv'
  <1>1. /\ Idle(o) /\ issued < MaxOps /\ issued' = issued + 1
        /\ UNCHANGED <<file, shc, cleanup, requests, copied, draining>>
    BY DEF Issue
  <1>2. PICK h \in Handles, kind \in AllKinds \ {"section"}, hooked \in BOOLEAN :
          /\ handle[h].phase = "open"
          /\ hooked => handle[h].hooked
          /\ IF handle[h].hooked /\ ~draining /\ ~hooked THEN Fail ELSE UNCHANGED failures
          /\ op' = [op EXCEPT ![o] = [phase |-> "issued", handle |-> h, kind |-> kind,
                                      hooked |-> hooked, name |-> NoName]]
          /\ handle' = [handle EXCEPT ![h].raced =
                           handle[h].raced \/ (kind = "rename" /\ Renaming(h))]
    <2>1. PICK h \in {g \in Handles : handle[g].phase = "open"}, kind \in Kinds \ {"section"} :
            \E hooked \in {FALSE, handle[h].hooked /\ ~draining} :
              /\ IF handle[h].hooked /\ ~draining /\ ~hooked THEN Fail ELSE UNCHANGED failures
              /\ op' = [op EXCEPT ![o] = [phase |-> "issued", handle |-> h, kind |-> kind,
                                          hooked |-> hooked, name |-> NoName]]
              /\ handle' = [handle EXCEPT ![h].raced =
                               handle[h].raced \/ (kind = "rename" /\ Renaming(h))]
      BY DEF Issue, HInv, ObjectTypes
    <2>2. kind \in AllKinds \ {"section"}
      BY HandleCaptureAssumption
    <2>3. PICK hooked \in {FALSE, handle[h].hooked /\ ~draining} :
              /\ IF handle[h].hooked /\ ~draining /\ ~hooked THEN Fail ELSE UNCHANGED failures
              /\ op' = [op EXCEPT ![o] = [phase |-> "issued", handle |-> h, kind |-> kind,
                                          hooked |-> hooked, name |-> NoName]]
              /\ handle' = [handle EXCEPT ![h].raced =
                               handle[h].raced \/ (kind = "rename" /\ Renaming(h))]
      BY <2>1
    <2>4. hooked \in BOOLEAN /\ (hooked => handle[h].hooked)
      BY <2>3
    <2> QED BY <2>1, <2>2, <2>3, <2>4
  <1>3. PICK raced \in BOOLEAN :
          /\ handle' = [handle EXCEPT ![h].raced = raced]
          /\ raced <=> handle[h].raced \/ (kind = "rename" /\ Renaming(h))
    <2> DEFINE r == handle[h].raced \/ (kind = "rename" /\ Renaming(h))
    <2>1. r \in BOOLEAN /\ handle' = [handle EXCEPT ![h].raced = r]
      BY <1>2
    <2> QED BY <2>1
  <1>4. /\ ObjectTypes'
        /\ op'[o].phase = "issued" /\ op'[o].handle = h /\ op'[o].kind = kind
        /\ op'[o].hooked = hooked
        /\ \A x \in Ops : x # o => op'[x] = op[x]
        /\ handle'[h].raced = raced
        /\ \A g \in Handles : g # h => handle'[g].raced = handle[g].raced
        /\ \A g \in Handles :
              /\ handle'[g].phase = handle[g].phase /\ handle'[g].calm = handle[g].calm
              /\ handle'[g].hooked = handle[g].hooked /\ handle'[g].doc = handle[g].doc
              /\ handle'[g].wrote = handle[g].wrote /\ handle'[g].did = handle[g].did
              /\ handle'[g].asked = handle[g].asked
    <2>1. [phase |-> "issued", handle |-> h, kind |-> kind, hooked |-> hooked,
           name |-> NoName] \in OpRec
      BY <1>2 DEF OpRec
    <2>2. handle[h] \in HandleRec /\ [handle[h] EXCEPT !.raced = raced] \in HandleRec
      BY DEF HandleRec, HInv, ObjectTypes
    <2>3. handle' = [handle EXCEPT ![h] = [handle[h] EXCEPT !.raced = raced]]
      BY <1>3 DEF HInv, ObjectTypes
    <2> QED BY <1>1, <1>2, <2>1, <2>2, <2>3 DEF HInv, ObjectTypes, HandleRec
  <1>5. Fail \/ UNCHANGED failures
    BY <1>2
  <1>6. OtherTypes'
    <2>1. issued' \in 0 .. MaxOps
      BY <1>1, HandleCaptureAssumption DEF HInv, OtherTypes
    <2> QED BY <1>1, <1>5, <2>1, SmoothBack DEF HInv, OtherTypes
  <1>7. Smooth' => Smooth /\ UNCHANGED failures
    BY <1>1, <1>5, SmoothBack
  <1>8. OpInv'
    <2>1. ~handle[h].calm
      BY <1>2 DEF HInv, PlaceInv, Place, Early
    <2>2. ASSUME NEW x \in Ops, x # o, ~Idle(x)
          PROVE  /\ handle'[op[x].handle].phase = handle[op[x].handle].phase
                 /\ handle'[op[x].handle].calm = handle[op[x].handle].calm
                 /\ handle'[op[x].handle].hooked = handle[op[x].handle].hooked
                 /\ handle'[op[x].handle].did = handle[op[x].handle].did
                 /\ handle'[op[x].handle].wrote = handle[op[x].handle].wrote
      BY <1>4, <2>2 DEF HInv, OpInv
    <2> SUFFICES ASSUME NEW x \in Ops, op'[x].phase # "idle"
                 PROVE  /\ op'[x].handle \in Handles
                        /\ op'[x].kind # "section"
                        /\ handle'[op'[x].handle].phase # "unopened"
                        /\ ~handle'[op'[x].handle].calm
                        /\ op'[x].hooked => handle'[op'[x].handle].hooked
                        /\ op'[x].phase # "issued" =>
                              /\ op'[x].kind \in handle'[op'[x].handle].did
                              /\ op'[x].kind \in Effects => handle'[op'[x].handle].wrote
                        /\ op'[x].phase = "flag" => op'[x].kind \in Dispositions
                        /\ op'[x].phase \in {"name", "swap"} => op'[x].kind = "rename"
                        /\ op'[x].phase \in {"flag", "name", "swap"} => op'[x].hooked
      BY DEF OpInv, Idle
    <2>3. CASE x = o
      BY <1>2, <1>4, <2>1, <2>3
    <2>4. CASE x # o
      BY <1>4, <2>2, <2>4 DEF HInv, OpInv, Idle
    <2> QED BY <2>3, <2>4
  <1>9. ContextInv'
    BY <1>1, <1>4 DEF HInv, ContextInv
  <1>10. PlaceInv'
    BY <1>1, <1>4 DEF HInv, PlaceInv, Place, Reason
  <1>11. \A kinds : \A x \in Ops, g \in Handles : Todo(x, g, kinds) => Todo(x, g, kinds)'
    BY <1>1, <1>4 DEF Todo, Idle
  <1>12. SeenInv'
    <2>1. ASSUME Smooth, UNCHANGED failures PROVE hooked = handle[h].hooked
      <3>1. ~(handle[h].hooked /\ ~draining /\ ~hooked)
        BY <1>2, <2>1 DEF Fail, HInv, OtherTypes
      <3>2. handle[h].hooked \in BOOLEAN
        BY DEF HInv, ObjectTypes, HandleRec
      <3> QED BY <1>2, <2>1, <3>1, <3>2 DEF Smooth
    <2>2. ASSUME Smooth, UNCHANGED failures, NEW x \in Ops, op'[x].phase # "idle",
                 handle'[op'[x].handle].hooked
          PROVE  op'[x].hooked
      <3>1. CASE x = o
        BY <1>4, <2>1, <2>2, <3>1
      <3>2. CASE x # o
        BY <1>4, <2>2, <3>2 DEF HInv, SeenInv, OpInv, Idle
      <3> QED BY <3>1, <3>2
    <2>3. ASSUME Smooth, NEW g \in Handles, handle'[g].hooked
          PROVE  /\ handle'[g].wrote => \/ "MODIFIED" \in shc'[g].flags
                                        \/ \E x \in Ops : Todo(x, g, Effects)'
                 /\ "delete" \in handle'[g].did => \/ shc'[g].observed
                                                   \/ \E x \in Ops : Todo(x, g, {"delete"})'
      BY <1>1, <1>4, <1>11, <2>3 DEF HInv, SeenInv
    <2> QED BY <1>7, <2>2, <2>3 DEF SeenInv, Idle
  <1>13. SnapInv' /\ FileInv'
    BY <1>1, <1>4, <1>7 DEF HInv, SnapInv, Snap, FileInv
  <1>14. DeletionInv'
    <2>1. \A g \in Handles : (Quiet(g)' <=> Quiet(g)) /\ (Kept(g)' <=> Kept(g))
      BY <1>4 DEF Quiet, Kept, Others
    <2> QED BY <1>1, <1>4, <1>7, <2>1 DEF HInv, DeletionInv, Deletion
  <1>15. OneRename'
    <2>1. ASSUME NEW g \in Handles, ~handle'[g].raced, NEW x \in Ops, NEW y \in Ops,
                 RenameOf(x, g)', RenameOf(y, g)'
          PROVE  x = y
      <3>1. ~handle[g].raced
        BY <1>3, <1>4, <2>1
      <3>2. \A z \in Ops : z # o /\ RenameOf(z, g)' => RenameOf(z, g)
        BY <1>4 DEF RenameOf, Idle
      <3>3. RenameOf(o, g)' => g = h /\ kind = "rename"
        BY <1>4 DEF RenameOf
      <3>4. RenameOf(o, g)' => \A z \in Ops : ~RenameOf(z, g)
        BY <1>3, <1>4, <2>1, <3>3 DEF RenameOf, Renaming
      <3> QED BY <2>1, <3>1, <3>2, <3>4 DEF HInv, OneRename
    <2> QED BY <2>1 DEF OneRename
  <1>16. NameInv'
    <2>1. ASSUME Smooth, NEW g \in Handles PROVE Named(g)'
      <3>1. Renamer(g)' => Renamer(g)
        BY <1>3, <1>4 DEF Renamer, Others
      <3>2. \A x \in Ops : RenameOf(x, g) => RenameOf(x, g)' /\ op'[x].phase = op[x].phase
        BY <1>1, <1>4 DEF RenameOf, Idle
      <3>3. \A x \in Ops : op'[x].phase = "swap" => op'[x] = op[x]
        BY <1>4
      <3> QED BY <1>1, <1>4, <2>1, <3>1, <3>2, <3>3 DEF HInv, NameInv, Named
    <2> QED BY <1>7, <2>1 DEF NameInv
  <1> QED BY <1>4, <1>6, <1>8, <1>9, <1>10, <1>12, <1>13, <1>14, <1>15, <1>16 DEF HInv

\* A section is mapped for writing.
LEMMA AcquireForSectionKeeps ==
    ASSUME HInv, NEW h \in Handles, AcquireForSection(h) PROVE HInv'
  <1>1. /\ handle[h].phase = "open" /\ issued < MaxOps /\ issued' = issued + 1
        /\ handle' = [handle EXCEPT ![h].wrote = TRUE]
        /\ UNCHANGED <<file, cleanup, op, requests, copied, draining, failures>>
    BY DEF AcquireForSection
  <1>2. PICK flags \in SUBSET Flags :
          /\ shc' = [shc EXCEPT ![h] = [shc[h] EXCEPT !.flags = flags]]
          /\ flags = IF handle[h].hooked /\ ~draining THEN shc[h].flags \union {"MODIFIED"}
                     ELSE shc[h].flags
    <2> DEFINE f == IF handle[h].hooked /\ ~draining THEN shc[h].flags \union {"MODIFIED"}
                    ELSE shc[h].flags
    <2>1. shc[h] \in ShcRec
      BY DEF HInv, ObjectTypes
    <2>2. f \in SUBSET Flags
      BY <2>1 DEF ShcRec, Flags
    <2>3. shc' = [shc EXCEPT ![h].flags = f]
      BY DEF AcquireForSection
    <2>4. shc' = [shc EXCEPT ![h] = [shc[h] EXCEPT !.flags = f]]
      BY <2>3 DEF HInv, ObjectTypes
    <2> QED BY <2>2, <2>4
  <1>3. /\ ObjectTypes'
        /\ shc'[h].flags = flags
        /\ handle'[h].wrote
        /\ \A g \in Handles : g # h => handle'[g].wrote = handle[g].wrote
                                       /\ shc'[g].flags = shc[g].flags
        /\ \A g \in Handles :
              /\ handle'[g].phase = handle[g].phase /\ handle'[g].calm = handle[g].calm
              /\ handle'[g].hooked = handle[g].hooked /\ handle'[g].doc = handle[g].doc
              /\ handle'[g].raced = handle[g].raced /\ handle'[g].did = handle[g].did
              /\ handle'[g].asked = handle[g].asked
              /\ shc'[g].observed = shc[g].observed /\ shc'[g].doc = shc[g].doc
              /\ shc'[g].current = shc[g].current
    <2>1. handle[h] \in HandleRec /\ shc[h] \in ShcRec
      BY DEF HInv, ObjectTypes
    <2>2. /\ [handle[h] EXCEPT !.wrote = TRUE] \in HandleRec
          /\ [shc[h] EXCEPT !.flags = flags] \in ShcRec
      BY <2>1 DEF HandleRec, ShcRec
    <2>3. handle' = [handle EXCEPT ![h] = [handle[h] EXCEPT !.wrote = TRUE]]
      BY <1>1 DEF HInv, ObjectTypes
    <2> QED BY <1>1, <1>2, <2>1, <2>2, <2>3, SMTT(60) DEF HInv, ObjectTypes, HandleRec, ShcRec
  <1>4. OtherTypes'
    <2>1. issued' \in 0 .. MaxOps
      BY <1>1, HandleCaptureAssumption DEF HInv, OtherTypes
    <2> QED BY <1>1, <2>1 DEF HInv, OtherTypes
  <1>5. Smooth' <=> Smooth
    BY <1>1 DEF Smooth
  <1>6. \A g \in Handles : handle[g].wrote => handle'[g].wrote
    BY <1>3
  <1>7. ~handle[h].calm
    BY <1>1 DEF HInv, PlaceInv, Place, Early
  <1>8. OpInv'
    BY <1>1, <1>3, <1>6 DEF HInv, OpInv, Idle
  <1>9. \A g \in Handles :
           /\ "MODIFIED" \in shc[g].flags => "MODIFIED" \in shc'[g].flags
           /\ "MODIFIED" \in shc'[g].flags => handle'[g].wrote \/ "MODIFIED" \in shc[g].flags
           /\ "DELETE_ON_CLOSE" \in shc'[g].flags <=> "DELETE_ON_CLOSE" \in shc[g].flags
           /\ "BACKED_UP" \in shc'[g].flags <=> "BACKED_UP" \in shc[g].flags
    BY <1>2, <1>3
  <1>10. ContextInv'
    BY <1>3, <1>6, <1>9 DEF HInv, ContextInv
  <1>11. PlaceInv'
    <2>1. \A g \in Handles : Reason(g) => Reason(g)'
      BY <1>3, <1>6 DEF Reason
    <2> QED BY <1>1, <1>3, <2>1 DEF HInv, PlaceInv, Place
  <1>12. SeenInv'
    <2>1. Smooth /\ handle[h].hooked => "MODIFIED" \in shc'[h].flags
      BY <1>2, <1>3 DEF Smooth
    <2>2. \A kinds : \A o \in Ops, g \in Handles : Todo(o, g, kinds)' <=> Todo(o, g, kinds)
      BY <1>1 DEF Todo
    <2>3. ASSUME Smooth, NEW g \in Handles, handle'[g].hooked
          PROVE  /\ handle'[g].wrote => \/ "MODIFIED" \in shc'[g].flags
                                        \/ \E o \in Ops : Todo(o, g, Effects)'
                 /\ "delete" \in handle'[g].did => \/ shc'[g].observed
                                                   \/ \E o \in Ops : Todo(o, g, {"delete"})'
      BY <1>3, <1>9, <2>1, <2>2, <2>3 DEF HInv, SeenInv
    <2>4. ASSUME Smooth, NEW o \in Ops, ~Idle(o), handle'[op[o].handle].hooked
          PROVE  op[o].hooked
      BY <1>3, <2>4 DEF HInv, SeenInv, OpInv
    <2> QED BY <1>1, <1>5, <2>3, <2>4 DEF SeenInv, Idle
  <1>13. SnapInv' /\ FileInv'
    BY <1>1, <1>3, <1>5, <1>7 DEF HInv, SnapInv, Snap, FileInv
  <1>14. DeletionInv'
    <2>1. \A g \in Handles : (Quiet(g)' <=> Quiet(g)) /\ (Kept(g)' <=> Kept(g))
      BY <1>3 DEF Quiet, Kept, Others
    <2> QED BY <1>1, <1>3, <1>5, <2>1 DEF HInv, DeletionInv, Deletion
  <1>15. OneRename'
    BY <1>1, <1>3 DEF HInv, OneRename, RenameOf, Idle
  <1>16. NameInv'
    <2>1. \A g \in Handles : Renamer(g)' <=> Renamer(g)
      BY <1>3 DEF Renamer, Others
    <2>2. \A o \in Ops, g \in Handles : RenameOf(o, g)' <=> RenameOf(o, g)
      BY <1>1 DEF RenameOf, Idle
    <2> QED BY <1>1, <1>3, <1>5, <2>1, <2>2 DEF HInv, NameInv, Named
  <1> QED BY <1>3, <1>4, <1>8, <1>10, <1>11, <1>12, <1>13, <1>14, <1>15, <1>16 DEF HInv

\* The file system does an operation.
LEMMA PerformKeeps == ASSUME HInv, NEW o \in Ops, Perform(o) PROVE HInv'
  <1>0. PICK h \in Handles, kind \in AllKinds : op[o].handle = h /\ op[o].kind = kind
    BY DEF Perform, Idle, HInv, OpInv, ObjectTypes, OpRec
  <1>1. /\ op[o].phase = "issued" /\ ~Idle(o) /\ file.onDisk /\ op[o] \in OpRec
        /\ UNCHANGED <<shc, cleanup, requests, copied, draining, issued, failures>>
        /\ op' = [op EXCEPT ![o].phase = "done"]
    BY DEF Perform, Idle, HInv, ObjectTypes
  <1>2. /\ h \in Handles /\ kind \in AllKinds /\ kind # "section"
        /\ handle[h].phase # "unopened" /\ ~handle[h].calm
    BY <1>0, <1>1 DEF HInv, OpInv
  <1>3. /\ file' \in FileRec /\ file'.onDisk
        /\ kind # "rename" => file'.name = file.name
        /\ kind = "delete" => file'.pending
        /\ kind = "undelete" => ~file'.pending
        /\ kind \notin Dispositions => file'.pending = file.pending
    <2>1. file \in FileRec
      BY DEF HInv, ObjectTypes
    <2>2. CASE kind = "delete"
      <3>1. file' = [file EXCEPT !.pending = TRUE]
        BY <1>0, <2>2 DEF Perform
      <3> QED BY <1>1, <2>1, <2>2, <3>1 DEF FileRec, Dispositions
    <2>3. CASE kind = "undelete"
      <3>1. file' = [file EXCEPT !.pending = FALSE]
        BY <1>0, <2>3 DEF Perform
      <3> QED BY <1>1, <2>1, <2>3, <3>1 DEF FileRec, Dispositions
    <2>4. CASE kind = "rename"
      <3>1. PICK n \in Names \ {file.name} : file' = [file EXCEPT !.name = n]
        BY <1>0, <2>4 DEF Perform
      <3> QED BY <1>1, <2>1, <2>4, <3>1 DEF FileRec, Dispositions
    <2>5. CASE kind \notin {"delete", "undelete", "rename"}
      <3>1. file' = file
        BY <1>0, <2>5 DEF Perform
      <3> QED BY <1>1, <2>1, <2>5, <3>1 DEF Dispositions
    <2> QED BY <2>2, <2>3, <2>4, <2>5
  <1>4. PICK wrote \in BOOLEAN :
          /\ handle' = [handle EXCEPT ![h] = [handle[h] EXCEPT
                           !.did = handle[h].did \union {kind}, !.wrote = wrote]]
          /\ wrote <=> handle[h].wrote \/ kind \in Effects
    <2> DEFINE w == handle[h].wrote \/ kind \in {"write", "resize", "rename"}
    <2>1. handle' = [handle EXCEPT ![h].did = handle[h].did \union {kind}, ![h].wrote = w]
      BY <1>0 DEF Perform, HInv, ObjectTypes
    <2>2. w \in BOOLEAN
      OBVIOUS
    <2> HIDE DEF w
    <2>3. handle' = [handle EXCEPT ![h] = [handle[h] EXCEPT
                           !.did = handle[h].did \union {kind}, !.wrote = w]]
      BY <1>2, <2>1 DEF HInv, ObjectTypes
    <2>4. w <=> handle[h].wrote \/ kind \in Effects
      BY DEF w, Effects
    <2> QED BY <2>2, <2>3, <2>4
  <1>5. /\ ObjectTypes'
        /\ op'[o].phase = "done" /\ op'[o].handle = h /\ op'[o].kind = kind
        /\ op'[o].hooked = op[o].hooked
        /\ \A x \in Ops : x # o => op'[x] = op[x]
        /\ handle'[h].did = handle[h].did \union {kind} /\ handle'[h].wrote = wrote
        /\ \A g \in Handles : g # h => handle'[g] = handle[g]
        /\ \A g \in Handles :
              /\ handle'[g].phase = handle[g].phase /\ handle'[g].calm = handle[g].calm
              /\ handle'[g].hooked = handle[g].hooked /\ handle'[g].doc = handle[g].doc
              /\ handle'[g].raced = handle[g].raced
              /\ handle'[g].asked = handle[g].asked
    <2>1. [op[o] EXCEPT !.phase = "done"] \in OpRec
      BY <1>1 DEF OpRec
    <2>2. /\ handle[h] \in HandleRec
          /\ [handle[h] EXCEPT !.did = handle[h].did \union {kind}, !.wrote = wrote]
             \in HandleRec
      BY <1>2 DEF HandleRec, HInv, ObjectTypes
    <2>3. op' = [op EXCEPT ![o] = [op[o] EXCEPT !.phase = "done"]]
      BY <1>1 DEF HInv, ObjectTypes
    <2>4. op'[o] = [op[o] EXCEPT !.phase = "done"] /\ \A x \in Ops : x # o => op'[x] = op[x]
      BY <2>3 DEF HInv, ObjectTypes
    <2>5. op' \in [Ops -> OpRec] /\ handle' \in [Handles -> HandleRec]
      BY <1>4, <2>1, <2>2, <2>3 DEF HInv, ObjectTypes
    <2>6. op'[o].handle = op[o].handle /\ op'[o].kind = op[o].kind
          /\ op'[o].hooked = op[o].hooked /\ op'[o].phase = "done"
      BY <1>1, <2>4 DEF OpRec
    <2>7. /\ handle'[h].did = handle[h].did \union {kind} /\ handle'[h].wrote = wrote
          /\ \A g \in Handles : g # h => handle'[g] = handle[g]
      BY <1>2, <1>4, <2>2 DEF HInv, ObjectTypes, HandleRec
    <2>8. /\ handle'[h].phase = handle[h].phase /\ handle'[h].calm = handle[h].calm
          /\ handle'[h].hooked = handle[h].hooked /\ handle'[h].doc = handle[h].doc
          /\ handle'[h].raced = handle[h].raced
          /\ handle'[h].asked = handle[h].asked
      BY <1>2, <1>4, <2>2 DEF HInv, ObjectTypes, HandleRec
    <2>9. ObjectTypes'
      BY <1>1, <1>3, <2>5 DEF HInv, ObjectTypes
    <2> QED BY <1>0, <2>4, <2>6, <2>7, <2>8, <2>9
  <1>6. /\ \A g \in Handles : handle[g].wrote => handle'[g].wrote
        /\ \A g \in Handles : handle[g].did \subseteq handle'[g].did
        /\ handle'[h].wrote => handle[h].wrote \/ kind \in Effects
        /\ kind \in Effects => handle'[h].wrote
    BY <1>4, <1>5
  <1>7. OtherTypes'
    BY <1>1 DEF HInv, OtherTypes
  <1>8. Smooth' <=> Smooth
    BY <1>1 DEF Smooth
  <1>9. OpInv'
    <2> SUFFICES ASSUME NEW x \in Ops, op'[x].phase # "idle"
                 PROVE  /\ op'[x].handle \in Handles
                        /\ op'[x].kind # "section"
                        /\ handle'[op'[x].handle].phase # "unopened"
                        /\ ~handle'[op'[x].handle].calm
                        /\ op'[x].hooked => handle'[op'[x].handle].hooked
                        /\ op'[x].phase # "issued" =>
                              /\ op'[x].kind \in handle'[op'[x].handle].did
                              /\ op'[x].kind \in Effects => handle'[op'[x].handle].wrote
                        /\ op'[x].phase = "flag" => op'[x].kind \in Dispositions
                        /\ op'[x].phase \in {"name", "swap"} => op'[x].kind = "rename"
                        /\ op'[x].phase \in {"flag", "name", "swap"} => op'[x].hooked
      BY DEF OpInv, Idle
    <2>1. CASE x = o
      <3>1. op[o].hooked => handle[h].hooked
        BY <1>0, <1>1 DEF HInv, OpInv
      <3> QED BY <1>2, <1>5, <1>6, <2>1, <3>1
    <2>2. CASE x # o
      BY <1>5, <1>6, <2>2 DEF HInv, OpInv, Idle
    <2> QED BY <2>1, <2>2
  <1>10. ContextInv'
    BY <1>1, <1>5, <1>6 DEF HInv, ContextInv
  <1>11. PlaceInv'
    <2>1. \A g \in Handles : Reason(g) => Reason(g)'
      BY <1>5, <1>6 DEF Reason
    <2>2. \A g \in Handles : handle[g].phase = "unopened" => handle'[g].did = handle[g].did
      BY <1>2, <1>5
    <2> QED BY <1>1, <1>5, <2>1, <2>2 DEF HInv, PlaceInv, Place
  <1>12. SeenInv'
    <2>1. \A kinds : \A x \in Ops, g \in Handles : Todo(x, g, kinds) => Todo(x, g, kinds)'
      BY <1>1, <1>5 DEF Todo
    <2>2. /\ kind \in Effects => Todo(o, h, Effects)'
          /\ kind = "delete" => Todo(o, h, {"delete"})'
      BY <1>5 DEF Todo
    <2>3. ASSUME Smooth, NEW g \in Handles, handle'[g].hooked
          PROVE  /\ handle'[g].wrote => \/ "MODIFIED" \in shc'[g].flags
                                        \/ \E x \in Ops : Todo(x, g, Effects)'
                 /\ "delete" \in handle'[g].did => \/ shc'[g].observed
                                                   \/ \E x \in Ops : Todo(x, g, {"delete"})'
      <3>1. CASE g = h
        BY <1>1, <1>5, <1>6, <2>1, <2>2, <2>3, <3>1 DEF HInv, SeenInv
      <3>2. CASE g # h
        BY <1>1, <1>5, <2>1, <2>3, <3>2 DEF HInv, SeenInv
      <3> QED BY <3>1, <3>2
    <2>4. ASSUME Smooth, NEW x \in Ops, op'[x].phase # "idle", handle'[op'[x].handle].hooked
          PROVE  op'[x].hooked
      <3>1. op'[x].handle = op[x].handle /\ op'[x].hooked = op[x].hooked /\ ~Idle(x)
        BY <1>0, <1>1, <1>5, <2>4 DEF Idle
      <3> QED BY <1>5, <2>4, <3>1 DEF HInv, SeenInv, OpInv
    <2> QED BY <1>8, <2>3, <2>4 DEF SeenInv, Idle
  <1>13. SnapInv'
    BY <1>1, <1>2, <1>5, <1>8 DEF HInv, SnapInv, Snap
  <1>14. FileInv'
    <2>1. CASE kind \in Dispositions
      BY <1>2, <1>3, <1>5, <2>1 DEF FileInv, Dispositions
    <2>2. CASE kind \notin Dispositions
      <3>1. \A g \in Handles : /\ "delete" \in handle'[g].did <=> "delete" \in handle[g].did
                               /\ "undelete" \in handle'[g].did <=> "undelete" \in handle[g].did
        BY <1>5, <2>2 DEF Dispositions
      <3> QED BY <1>3, <1>5, <2>2, <3>1 DEF HInv, FileInv
    <2> QED BY <2>1, <2>2
  <1>15. DeletionInv'
    <2>1. ASSUME Smooth, NEW g \in Handles, g # h PROVE Deletion(g)'
      <3>1. Quiet(g)' => Quiet(g) /\ kind \notin {"delete", "rename"}
        BY <1>2, <1>5, <2>1 DEF Quiet, Others
      <3>2. Kept(g)' => Kept(g)
        BY <1>5, <1>6 DEF Kept
      <3>3. kind \notin {"delete", "rename"} =>
               file'.name = file.name /\ (file'.pending => file.pending)
        BY <1>3 DEF Dispositions
      <3>4. handle'[g] = handle[g] /\ UNCHANGED <<cleanup, copied>>
        BY <1>1, <1>5, <2>1
      <3>5. Deletion(g)
        BY <2>1 DEF HInv, DeletionInv
      <3> HIDE DEF HInv
      <3> QED BY <3>1, <3>2, <3>3, <3>4, <3>5 DEF Deletion
    <2> QED BY <1>2, <1>5, <1>8, <2>1 DEF DeletionInv, Deletion
  <1>16. \A x \in Ops, g \in Handles : RenameOf(x, g)' <=> RenameOf(x, g)
    BY <1>0, <1>1, <1>5 DEF RenameOf, Idle
  <1>17. OneRename'
    BY <1>5, <1>16 DEF HInv, OneRename
  <1>18. NameInv'
    <2>1. ASSUME Smooth, NEW g \in Handles, Renamer(g)' PROVE Named(g)'
      <3>1. Renamer(g)
        BY <1>5, <1>6, <2>1 DEF Renamer, Others
      <3>2. \A x \in Ops : RenameOf(x, g) /\ op[x].phase # "issued" =>
                              RenameOf(x, g)' /\ op'[x].phase # "issued"
        BY <1>5, <1>16
      <3>3. \A x \in Ops : op'[x].phase = "swap" => op'[x] = op[x]
        BY <1>5
      <3>4. CASE kind # "rename"
        <4>1. file'.name = file.name
          BY <1>3, <3>4
        <4> QED BY <1>1, <1>5, <2>1, <3>1, <3>2, <3>3, <4>1 DEF HInv, NameInv, Named
      <3>5. CASE kind = "rename"
        <4>1. g = h
          BY <1>2, <1>5, <2>1, <3>5 DEF Renamer, Others
        <4>2. RenameOf(o, h)' /\ op'[o].phase # "issued"
          BY <1>5, <3>5 DEF RenameOf, Idle
        <4>3. RenameOf(o, h)
          BY <1>2, <1>16, <4>2
        <4>4. \A x \in Ops : RenameOf(x, h) => x = o
          BY <1>2, <3>1, <4>1, <4>3 DEF HInv, OneRename, Renamer
        <4>5. \A x \in Ops : op[x].phase = "swap" /\ op[x].handle = h => RenameOf(x, h)
          BY DEF HInv, OpInv, RenameOf, Idle
        <4>6. \A x \in Ops : op'[x].phase = "swap" => op'[x].handle # h
          BY <1>1, <3>3, <4>4, <4>5
        <4> QED BY <1>2, <1>5, <4>1, <4>2, <4>6 DEF Named
      <3> QED BY <3>4, <3>5
    <2> QED BY <1>8, <2>1 DEF NameInv, Named
  <1> QED BY <1>5, <1>7, <1>9, <1>10, <1>11, <1>12, <1>13, <1>14, <1>15, <1>17, <1>18 DEF HInv

\* The client copies, and the instance is torn down.
LEMMA CopyKeeps == ASSUME HInv, Copy PROVE HInv'
  <1>1. /\ UNCHANGED <<file, handle, shc, cleanup, op, draining, issued, failures>>
        /\ copied \subseteq copied'
        /\ OtherTypes'
    BY DEF Copy, HInv, OtherTypes
  <1>2. Smooth' <=> Smooth
    BY <1>1 DEF Smooth
  <1>3. ObjectTypes' /\ OpInv' /\ ContextInv' /\ FileInv' /\ OneRename'
    BY <1>1 DEF HInv, ObjectTypes, OpInv, Idle, ContextInv, FileInv, OneRename, RenameOf
  <1>4. PlaceInv' /\ SnapInv'
    BY <1>1, <1>2 DEF HInv, PlaceInv, Place, Reason, SnapInv, Snap
  <1>5. SeenInv'
    BY <1>1, <1>2 DEF HInv, SeenInv, Todo, Idle
  <1>6. DeletionInv'
    <2>1. \A h : (Quiet(h)' <=> Quiet(h)) /\ (Kept(h)' <=> Kept(h))
      BY <1>1 DEF Quiet, Kept, Others
    <2> QED BY <1>1, <1>2, <2>1 DEF HInv, DeletionInv, Deletion
  <1>7. NameInv'
    BY <1>1, <1>2 DEF HInv, NameInv, Named, Renamer, RenameOf, Idle
  <1> QED BY <1>1, <1>3, <1>4, <1>5, <1>6, <1>7 DEF HInv

LEMMA DrainKeeps == ASSUME HInv, Drain PROVE HInv'
  <1>1. /\ UNCHANGED <<file, handle, shc, cleanup, op, requests, copied, issued, failures>>
        /\ draining'
    BY DEF Drain
  <1>2. ~Smooth'
    BY <1>1 DEF Smooth
  <1>3. ObjectTypes' /\ OpInv' /\ ContextInv' /\ FileInv' /\ OneRename'
    BY <1>1 DEF HInv, ObjectTypes, OpInv, Idle, ContextInv, FileInv, OneRename, RenameOf
  <1>4. PlaceInv'
    BY <1>1 DEF HInv, PlaceInv, Place, Reason
  <1>5. OtherTypes'
    BY <1>1 DEF Drain, HInv, OtherTypes
  <1>6. SeenInv' /\ SnapInv' /\ DeletionInv' /\ NameInv'
    BY <1>2 DEF SeenInv, SnapInv, DeletionInv, NameInv
  <1> QED BY <1>3, <1>4, <1>5, <1>6 DEF HInv
-----------------------------------------------------------------------------

\* What a handle is before it is opened.
Unopened == [phase |-> "unopened", hooked |-> FALSE, doc |-> FALSE, wrote |-> FALSE,
             did |-> {}, raced |-> FALSE, calm |-> FALSE, asked |-> 0]

LEMMA UnopenedType == Unopened \in HandleRec
  <1>1. {} \in SUBSET AllKinds /\ "unopened" \in Phases
    BY DEF Phases
  <1> QED BY <1>1 DEF Unopened, HandleRec

LEMMA InitHInv == Init => HInv
  <1> SUFFICES ASSUME Init PROVE HInv
    OBVIOUS
  <1>a. draining = FALSE /\ issued = 0 /\ failures = 0
    BY DEF Init
  <1>b. draining \in BOOLEAN /\ issued \in 0 .. MaxOps /\ failures \in 0 .. MaxFailures
    <2>1. MaxOps \in Nat /\ MaxFailures \in Nat
      BY HandleCaptureAssumption
    <2>2. issued \in 0 .. MaxOps /\ failures \in 0 .. MaxFailures
      BY <1>a, <2>1
    <2>3. draining \in BOOLEAN
      BY <1>a
    <2> QED BY <2>2, <2>3
  <1> USE HandleCaptureAssumption DEF Init
  <1>1. ObjectTypes
    <2>1. NoShc \in ShcRec /\ NoCleanup \in CleanupRec
      BY DEF NoShc, ShcRec, NoCleanup, CleanupRec
    <2>2. file \in FileRec
      BY DEF FileRec
    <2>3. handle = [h \in Handles |-> Unopened]
      BY DEF Unopened
    <2> QED BY <2>1, <2>2, <2>3, NoOpType, UnopenedType DEF ObjectTypes
  <1>2. OtherTypes
    <2>1. requests \subseteq [handle : Handles, name : Names] /\ copied \subseteq Handles
      OBVIOUS
    <2> QED BY <1>b, <2>1 DEF OtherTypes
  <1>3. \A o \in Ops : Idle(o)
    BY NoOpType DEF Idle
  <1>4. OpInv /\ OneRename
    BY <1>3 DEF OpInv, OneRename, RenameOf
  <1>5. ContextInv
    BY DEF ContextInv, NoShc
  <1>6. PlaceInv
    BY DEF PlaceInv, Place, NoCleanup, Early
  <1>7. SeenInv /\ SnapInv /\ DeletionInv
    BY <1>3 DEF SeenInv, SnapInv, Snap, DeletionInv, Deletion
  <1>8. FileInv
    BY DEF FileInv
  <1>9. NameInv
    BY DEF NameInv, Named, Renamer
  <1> QED BY <1>1, <1>2, <1>4, <1>5, <1>6, <1>7, <1>8, <1>9 DEF HInv

LEMMA StepHInv == HInv /\ [Next]_vars => HInv'
  <1> SUFFICES ASSUME HInv, [Next]_vars PROVE HInv'
    OBVIOUS
  <1>1. CASE \E h \in Handles : Open(h) \/ AcquireForSection(h) \/ CleanupBegin(h) \/ Close(h)
    BY <1>1, OpenKeeps, AcquireForSectionKeeps, CleanupBeginKeeps, ResolveKeeps, QueryKeeps,
       SendSyncKeeps, FsCleanupKeeps, PostCleanupKeeps DEF Close
  <1>2. CASE \E o \in Ops : Issue(o) \/ Operate(o)
    BY <1>2, IssueKeeps, PerformKeeps, ForgetKeeps, PostKeeps, PostDispositionKeeps,
       QueryNameKeeps, SwapNameKeeps DEF Operate
  <1>3. CASE Copy
    BY <1>3, CopyKeeps
  <1>4. CASE Drain
    BY <1>4, DrainKeeps
  <1>5. CASE UNCHANGED vars
    <2>1. UNCHANGED <<file, handle, shc, cleanup, op, requests, copied, draining, issued,
                      failures>>
      BY <1>5 DEF vars
    <2>2. Smooth' <=> Smooth
      BY <2>1 DEF Smooth
    <2>3. PlaceInv' /\ SnapInv' /\ FileInv' /\ DeletionInv'
      BY <2>1, FileFrame
    <2>4. ObjectTypes' /\ OtherTypes' /\ OpInv' /\ ContextInv' /\ OneRename'
      BY <2>1 DEF HInv, ObjectTypes, OtherTypes, OpInv, Idle, ContextInv, OneRename, RenameOf
    <2>5. SeenInv' /\ NameInv'
      BY <2>1, <2>2 DEF HInv, SeenInv, Todo, Idle, NameInv, Named, Renamer, RenameOf
    <2> QED BY <2>3, <2>4, <2>5 DEF HInv
  <1> QED BY <1>1, <1>2, <1>3, <1>4, <1>5 DEF Next
-----------------------------------------------------------------------------
(* The theorems. *)

\* At every moment the context, the snapshot and the requests of each handle tell
\* what it did, but for the operations whose post callbacks are still to run.
THEOREM HandleCaptureInvariant == Spec => []HInv
  <1>1. Init => HInv
    BY InitHInv
  <1>2. HInv /\ [Next]_vars => HInv'
    BY StepHInv
  <1> QED BY <1>1, <1>2, PTL DEF Spec

\* Every variable keeps its type; in particular no handle is asked for twice, by
\* the synchronous send and the post callback of its cleanup together.
THEOREM HandleCaptureTypes == Spec => []TypeOK
  <1>1. HInv => TypeOK
    BY DEF HInv, ObjectTypes, OtherTypes, TypeOK, FileRec, HandleRec, ShcRec, CleanupRec, OpRec
  <1> QED BY <1>1, HandleCaptureInvariant, PTL

\* A tracked handle that changed the file, closed with nothing under way, is asked
\* for exactly once unless its final name is excluded: knFcPreCleanup,
\* knFcResolveFinalName and knFcPostCleanup lose no change that a callback saw.
THEOREM EveryChangeIsRequested == Spec => []ModifiedIsRequested
  <1>1. HInv => ModifiedIsRequested
    <2> SUFFICES ASSUME HInv, Smooth, NEW h \in Handles, ClosedCalmly(h), handle[h].wrote,
                        cleanup[h].name \notin Excluded
                 PROVE  handle[h].asked = 1
      BY DEF ModifiedIsRequested
    <2>1. handle[h].phase = "closed" /\ handle[h].hooked /\ handle[h].calm
      BY DEF ClosedCalmly
    <2> QED BY <2>1 DEF HInv, SnapInv, Snap
  <1> QED BY <1>1, HandleCaptureInvariant, PTL

\* Nothing is asked for a handle that only read, whatever the other handles of
\* the file did, and even when look-ups fail or the instance is torn down.
THEOREM ReadersAskNothing == Spec => []OnlyChangesRequested
  <1>1. HInv => OnlyChangesRequested
    <2> SUFFICES ASSUME HInv, NEW h \in Handles, handle[h].asked > 0
                 PROVE  handle[h].hooked /\ Reason(h)
      BY DEF OnlyChangesRequested, Reason, Dispositions
    <2>1. handle[h].asked = 1
      BY DEF HInv, ObjectTypes, HandleRec
    <2> QED BY <2>1 DEF HInv, PlaceInv, Place
  <1> QED BY <1>1, HandleCaptureInvariant, PTL

\* When the data goes because of one handle's own deletion, it was copied before,
\* in whatever order its dispositions and their post callbacks ran: knFcPreCleanup
\* weighs DeletePending with the flag the callbacks left.
THEOREM DeletionIsCopiedBefore == Spec => []OwnDeletionCaptured
  <1>1. HInv => OwnDeletionCaptured
    <2> SUFFICES ASSUME HInv, Smooth, ~file.onDisk, NEW h \in Handles,
                        ClosedCalmly(h), cleanup[h].queried,
                        \A g \in Others(h) : ~handle[g].doc
                                  /\ handle[g].did \intersect {"delete", "rename"} = {},
                        handle[h].doc => \A g \in Handles : "undelete" \notin handle[g].did,
                        cleanup[h].name = cleanup[h].live
                 PROVE  h \in copied
      BY DEF OwnDeletionCaptured
    <2>1. handle[h].phase = "closed" /\ handle[h].hooked /\ handle[h].calm
      BY DEF ClosedCalmly
    <2>2. Quiet(h) /\ Kept(h)
      BY DEF Quiet, Kept
    <2>3. file.pending
      BY DEF HInv, FileInv
    <2> QED BY <2>1, <2>2, <2>3 DEF HInv, DeletionInv, Deletion
  <1> QED BY <1>1, HandleCaptureInvariant, PTL

\* A request carries the file's path at its cleanup, if only the handle's own
\* renames moved the file, one after the other: the name that knFcShcSetCurrentName
\* stored, which knFcResolveFinalName prefers, is not an older one.
THEOREM RenameLeavesFinalName == Spec => []OwnNameIsFinal
  <1>1. HInv => OwnNameIsFinal
    <2> SUFFICES ASSUME HInv, Smooth, NEW h \in Handles, cleanup[h].name # NoName,
                        handle[h].calm, ~handle[h].raced,
                        \A g \in Others(h) : "rename" \notin handle[g].did
                 PROVE  cleanup[h].name = cleanup[h].live
      BY DEF OwnNameIsFinal
    <2>1. handle[h].hooked
      BY DEF HInv, PlaceInv, Place
    <2> QED BY <2>1 DEF HInv, NameInv, Named, Renamer
  <1> QED BY <1>1, HandleCaptureInvariant, PTL
=============================================================================

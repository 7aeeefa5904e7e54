------------------------ MODULE FunctionReviewProofs ------------------------
(***************************************************************************)
(* Theorems about FunctionReview, for every set of processes, users and    *)
(* bodies and every number of revisions.                                   *)
(***************************************************************************)
EXTENDS FunctionReview, TLAPS

Busy(p) == task[p] # Idle

\* What a process has compiled is the body it has cached it under.
Compiles == \A p \in Process : cache[p] # NotLoaded => cache[p].function.source = cache[p].body

\* A call t with the copy c: the form saves the whole row, and so does register of a new body,
\* before it approves.
Kind(c, t) ==
  /\ c # NoRow
  /\ t.call = "edit" => t.whole /\ t.next \in {"pre_save", "update"}
  /\ t.next = "revision" => ~t.whole

Base ==
  /\ TypeOK /\ Compiles
  /\ \A p \in Process : /\ Busy(p) => Kind(copy[p], task[p])
                        /\ copy[p] # NoRow => row # NoRow
  /\ row = NoRow => revisions = <<>>

\* What the copy c of the only call t that is under way has to do with the row r.
Follows(c, t, r) ==
  /\ r # NoRow
  /\ ~t.whole \/ t.next = "post_save" => c.body = r.body /\ c.version = r.version
  /\ ~t.whole /\ t.next # "pre_save" => ~t.changed
  /\ t.whole /\ t.next = "pre_save" => c.approved = r.approved /\ c.version = r.version
  /\ t.whole /\ t.next = "update" =>
       /\ c.approved => r.approved /\ c.body = r.body
       /\ t.changed => c.version = r.version + 1 /\ c.body # r.body
       /\ ~t.changed => c.version = r.version /\ c.body = r.body

\* Recorded(v, b) of the history h.
EntriesOf(h) == {k \in DOMAIN h : h[k].action \in Content}

Told(h, v, b) ==
  /\ {h[k].version : k \in EntriesOf(h)} = 1..v
  /\ \A j, k \in EntriesOf(h) : j < k => h[j].version < h[k].version
  /\ \A j, k \in EntriesOf(h) : h[k].version = h[j].version + 1 => h[j].body # h[k].body
  /\ \A k \in EntriesOf(h) : h[k].version = v => h[k].body = b

\* What the history h tells of the row r while the only call is t: the save that has
\* changed the body has yet to be told.
Chronicled(h, t, r) ==
  r # NoRow => IF t # Idle /\ t.next = "post_save" /\ t.changed
               THEN \E v \in Nat, b \in Body : r.version = v + 1 /\ b # r.body /\ Told(h, v, b)
               ELSE Told(h, r.version, r.body)

\* The approval of the call t is in the row and not yet in the history.
Unrecorded(t) == t # Idle /\ ~t.whole /\ t.next \in {"post_save", "revision"}

Undisturbed ==
  /\ \A p, q \in Process : Busy(p) /\ Busy(q) => p = q
  /\ \A p \in Process : Busy(p) => Follows(copy[p], task[p], row)
  /\ row # NoRow /\ row.approved => Reviewed(row.body) \/ \E p \in Process : Unrecorded(task[p])
  /\ \A p \in Process : Busy(p) => Chronicled(revisions, task[p], row)
  /\ (\A p \in Process : ~Busy(p)) => Chronicled(revisions, Idle, row)

IInv == Base /\ (~disturbed => Undisturbed)

-----------------------------------------------------------------------------
\* A row is not the absence of one, nor a call that of one.
LEMMA Distinct == NoRow \notin Function /\ Idle \notin Task
  BY FunctionAssumption DEF Function, Actor, Idle, Task

\* A call under way has a copy of a row that exists.
LEMMA Busied ==
  ASSUME Base, NEW p \in Process, Busy(p)
  PROVE  task[p] \in Task /\ copy[p] \in Function /\ Kind(copy[p], task[p]) /\ row \in Function
  BY DEF Base, TypeOK, Busy, Kind

\* A revision is added at the end, and takes no review back.
LEMMA Revises ==
  ASSUME TypeOK, NEW v \in Nat, NEW a \in Content \cup Approving, NEW b \in Body, NEW u \in Actor,
         revisions' = Revised(v, a, b, u)
  PROVE  /\ revisions' \in Seq(Revision)
         /\ DOMAIN revisions' = DOMAIN revisions \cup {Len(revisions) + 1}
         /\ Len(revisions) + 1 \notin DOMAIN revisions
         /\ \A k \in DOMAIN revisions : revisions'[k] = revisions[k]
         /\ revisions'[Len(revisions) + 1].action = a /\ revisions'[Len(revisions) + 1].body = b
         /\ \A x : Reviewed(x) => Reviewed(x)'
         /\ a \in Approving => Reviewed(b)'
<1> DEFINE r == [version |-> v, action |-> a, body |-> b, by |-> u]
<1>1. r \in Revision /\ r.action = a /\ r.body = b
  BY DEF Revision
<1>2. revisions' = Append(revisions, r) /\ revisions \in Seq(Revision)
  BY DEF Revised, TypeOK
<1> HIDE DEF r
<1>3. /\ revisions' \in Seq(Revision)
      /\ DOMAIN revisions' = DOMAIN revisions \cup {Len(revisions) + 1}
      /\ Len(revisions) + 1 \notin DOMAIN revisions
      /\ \A k \in DOMAIN revisions : revisions'[k] = revisions[k]
      /\ revisions'[Len(revisions) + 1] = r
  BY <1>1, <1>2
<1> QED
  BY <1>1, <1>3 DEF Reviewed

\* A history without entries tells of no version.
LEMMA ToldNothing ==
  ASSUME NEW b
  PROVE  Told(<<>>, 0, b)
  BY DEF Told, EntriesOf

\* An entry of the next version, with another body than the one told last.
LEMMA ToldMore ==
  ASSUME NEW h \in Seq(Revision), NEW v \in Nat, NEW b, NEW r \in Revision, Told(h, v, b),
         r.action \in Content, r.version = v + 1, v = 0 \/ r.body # b
  PROVE  Told(Append(h, r), v + 1, r.body)
<1>1. PICK n : n = Len(h) + 1
  OBVIOUS
<1>2. PICK g : g = Append(h, r)
  OBVIOUS
<1>3. /\ n \in Nat /\ g[n] = r /\ n \notin EntriesOf(h) /\ EntriesOf(g) = EntriesOf(h) \cup {n}
      /\ \A k \in EntriesOf(h) : k \in Nat /\ k < n /\ g[k] = h[k]
  BY <1>1, <1>2 DEF EntriesOf
<1>4. \A k \in EntriesOf(h) : h[k].version \in 1..v
  BY DEF Told
<1>5. {g[k].version : k \in EntriesOf(g)} = 1..(v + 1)
  <2>1. {g[k].version : k \in EntriesOf(g)} = {h[k].version : k \in EntriesOf(h)} \cup {v + 1}
    BY <1>3
  <2>2. 1..(v + 1) = (1..v) \cup {v + 1}
    OBVIOUS
  <2> QED
    BY <2>1, <2>2 DEF Told
<1>6. ASSUME NEW j \in EntriesOf(g), NEW k \in EntriesOf(g), j < k  PROVE g[j].version < g[k].version
  BY <1>3, <1>4, <1>6 DEF Told
<1>7. ASSUME NEW j \in EntriesOf(g), NEW k \in EntriesOf(g), g[k].version = g[j].version + 1
      PROVE  g[j].body # g[k].body
  <2>1. CASE j = n
    BY <1>3, <1>4, <1>7, <2>1
  <2>2. CASE j # n /\ k = n
    BY <1>3, <1>4, <1>7, <2>2 DEF Told
  <2>3. CASE j # n /\ k # n
    BY <1>3, <1>7, <2>3 DEF Told
  <2> QED
    BY <2>1, <2>2, <2>3
<1>8. ASSUME NEW k \in EntriesOf(g), g[k].version = v + 1  PROVE g[k].body = r.body
  BY <1>3, <1>4, <1>8
<1>9. Told(g, v + 1, r.body)
  BY <1>5, <1>6, <1>7, <1>8 DEF Told
<1> QED
  BY <1>2, <1>9

\* The entry of an approval tells of no edit.
LEMMA ToldStill ==
  ASSUME NEW h \in Seq(Revision), NEW v, NEW b, NEW r \in Revision, Told(h, v, b), r.action \in Approving
  PROVE  Told(Append(h, r), v, b)
<1>1. PICK g : g = Append(h, r)
  OBVIOUS
<1>2. EntriesOf(g) = EntriesOf(h) /\ \A k \in EntriesOf(h) : g[k] = h[k]
  BY <1>1 DEF EntriesOf, Content, Approving
<1>3. {g[k].version : k \in EntriesOf(g)} = {h[k].version : k \in EntriesOf(h)}
  BY <1>2
<1>4. Told(g, v, b)
  <2>1. {g[k].version : k \in EntriesOf(g)} = 1..v
    BY <1>3 DEF Told
  <2> QED
    BY <1>2, <2>1 DEF Told
<1> QED
  BY <1>1, <1>4

\* A step of p, to the copy c and the call t.
LEMMA Moves ==
  ASSUME IInv, NEW p \in Process, NEW c \in Function \cup {NoRow}, NEW t \in Task \cup {Idle},
         copy' = [copy EXCEPT ![p] = c], task' = [task EXCEPT ![p] = t], cache' = cache,
         row' \in Function \cup {NoRow}, revisions' \in Seq(Revision), Remember,
         t # Idle => Kind(c, t), row # NoRow \/ c # NoRow => row' # NoRow,
         row' = NoRow => revisions' = <<>>,
         ~disturbed' => /\ \A q \in Process \ {p} : ~Busy(q)
                        /\ t # Idle => Follows(c, t, row')
                        /\ row' # NoRow /\ row'.approved => Reviewed(row.body)' \/ Unrecorded(t)
                        /\ Chronicled(revisions', t, row')
  PROVE  IInv'
<1>1. /\ copy'[p] = c /\ task'[p] = t
      /\ \A q \in Process \ {p} : copy'[q] = copy[q] /\ task'[q] = task[q]
      /\ copy' \in [Process -> Function \cup {NoRow}] /\ task' \in [Process -> Task \cup {Idle}]
  BY DEF IInv, Base, TypeOK
<1>2. disturbed' \in BOOLEAN
  BY DEF IInv, Base, TypeOK, Remember, Disturbs
<1>3. \A q \in Process : /\ Busy(q)' => Kind(copy'[q], task'[q])
                         /\ copy'[q] # NoRow => row' # NoRow
  BY <1>1 DEF IInv, Base, Busy
<1>4. Base'
  BY <1>1, <1>2, <1>3 DEF IInv, Base, TypeOK, Compiles, Kind
<1>5. ASSUME ~disturbed'  PROVE Undisturbed'
  <2>1. \A q \in Process : Busy(q)' => q = p
    BY <1>1, <1>5 DEF Busy
  <2>2. \A q \in Process : Busy(q)' => Follows(copy'[q], task'[q], row')
    BY <1>1, <1>5, <2>1 DEF Busy
  <2>3. row' # NoRow /\ row'.approved => Reviewed(row.body)' \/ \E q \in Process : Unrecorded(task'[q])
    BY <1>1, <1>5
  <2>4. \A q \in Process : Busy(q)' => Chronicled(revisions', task'[q], row')
    BY <1>1, <1>5, <2>1
  <2>5. (\A q \in Process : ~Busy(q)') => Chronicled(revisions', Idle, row')
    BY <1>1, <1>5 DEF Busy
  <2> QED
    BY <2>1, <2>2, <2>3, <2>4, <2>5 DEF Undisturbed, Follows, Unrecorded, Reviewed, Chronicled
<1> QED
  BY <1>4, <1>5 DEF IInv

\* Without a disturbance a call that goes on, or starts, is the only one.
LEMMA Only ==
  ASSUME IInv, NEW p \in Process, Remember, ~disturbed', Busy(p)
  PROVE  /\ \A q \in Process \ {p} : ~Busy(q)
         /\ Undisturbed /\ Follows(copy[p], task[p], row) /\ ~disturbed
         /\ Chronicled(revisions, task[p], row)
  BY DEF IInv, Remember, Undisturbed

\* A call that starts undisturbed is the only one, on a copy that is the row.
LEMMA Starts ==
  ASSUME IInv, NEW p \in Process, NEW t \in Task, task[p] = Idle, task' = [task EXCEPT ![p] = t],
         Remember, ~disturbed'
  PROVE  /\ \A q \in Process : ~Busy(q)
         /\ Undisturbed /\ ~disturbed /\ (t.call # "register" => copy[p] = row)
         /\ row # NoRow /\ row.approved => Reviewed(row.body)
         /\ Chronicled(revisions, Idle, row)
<1>1. task'[p] = t /\ t # Idle /\ \A q \in Process \ {p} : task'[q] = task[q]
  BY Distinct DEF IInv, Base, TypeOK
<1>2. ~Disturbs /\ ~disturbed /\ Undisturbed
  BY DEF Remember, IInv
<1>3. \A q \in Process : ~Busy(q)
  BY <1>1, <1>2 DEF Disturbs, Busy
<1>4. t.call # "register" => copy[p] = row
  BY <1>1, <1>2 DEF Disturbs
<1>5. row # NoRow /\ row.approved => Reviewed(row.body)
  BY <1>2, <1>3 DEF Undisturbed, Unrecorded, Busy
<1>6. Chronicled(revisions, Idle, row)
  BY <1>2, <1>3 DEF Undisturbed
<1> QED
  BY <1>2, <1>3, <1>4, <1>5, <1>6

-----------------------------------------------------------------------------
(* The statements of a call.                                               *)

\* pre_save withdraws the approval of a body that is not the stored one, and keeps the body.
LEMMA PreSaves ==
  ASSUME NEW f \in Function
  PROVE  /\ PreSaved(f) \in Function /\ PreSaved(f).body = f.body
         /\ row # NoRow /\ row.body = f.body => PreSaved(f) = f
         /\ row # NoRow /\ row.body # f.body => PreSaved(f).approved = FALSE
         /\ row = NoRow => PreSaved(f).approved = f.approved
         /\ row = NoRow \/ row.body # f.body => PreSaved(f).version = f.version + 1
<1>1. f.version + 1 \in Nat /\ NoOne \in Actor
  BY DEF Function, Actor
<1>2. CASE row = NoRow
  <2>1. PreSaved(f) = [f EXCEPT !.version = @ + 1]
    BY <1>2 DEF PreSaved
  <2> QED
    BY <1>1, <1>2, <2>1 DEF Function
<1>3. CASE row # NoRow /\ row.body # f.body
  <2>1. PreSaved(f) = [f EXCEPT !.version = @ + 1, !.approved = FALSE, !.approvedBy = NoOne]
    BY <1>3 DEF PreSaved
  <2> QED
    BY <1>1, <1>3, <2>1 DEF Function
<1>4. CASE row # NoRow /\ row.body = f.body
  BY <1>4 DEF PreSaved
<1> QED
  BY <1>2, <1>3, <1>4

\* pre_save keeps the invariant.
LEMMA PresaveStep ==
  ASSUME IInv, NEW p \in Process, PreSave(p), Remember
  PROVE  IInv'
<1>1. Busy(p) /\ task[p].next = "pre_save" /\ task[p] \in Task /\ copy[p] \in Function
      /\ Kind(copy[p], task[p]) /\ row \in Function
  BY Busied DEF PreSave, At, Busy, IInv
<1>2. PICK c : c = PreSaved(copy[p])
  OBVIOUS
<1>3. /\ c \in Function /\ c.body = copy[p].body
      /\ row # NoRow /\ row.body = copy[p].body => c = copy[p]
      /\ row # NoRow /\ row.body # copy[p].body => c.approved = FALSE /\ c.version = copy[p].version + 1
  BY <1>1, <1>2, PreSaves
<1>4. PICK changed \in BOOLEAN : changed = Changes(copy[p])
  BY DEF Changes
<1>5. PICK t : t = [task[p] EXCEPT !.changed = changed, !.next = "update"]
  OBVIOUS
<1>6. /\ t \in Task /\ t.next = "update" /\ t.whole = task[p].whole /\ t.call = task[p].call
      /\ t.changed = (row.body # copy[p].body)
  BY <1>1, <1>4, <1>5, Distinct DEF Task, Changes
<1>7. copy' = [copy EXCEPT ![p] = c] /\ task' = [task EXCEPT ![p] = t] /\ UNCHANGED <<row, revisions, cache>>
  BY <1>2, <1>4, <1>5 DEF PreSave, IInv, Base, TypeOK
<1>8. Kind(c, t)
  BY <1>1, <1>3, <1>6, Distinct DEF Kind
<1>9. ASSUME ~disturbed'
      PROVE  /\ \A q \in Process \ {p} : ~Busy(q)
             /\ Follows(c, t, row')
             /\ row' # NoRow /\ row'.approved => Reviewed(row.body)'
             /\ Chronicled(revisions', t, row')
  <2>1. /\ Follows(copy[p], task[p], row) /\ Undisturbed /\ \A q \in Process \ {p} : ~Busy(q)
        /\ Chronicled(revisions, task[p], row)
    BY <1>1, <1>9, Only
  <2>2. Follows(c, t, row)
    BY <1>1, <1>3, <1>6, <2>1 DEF Follows
  <2>4. Chronicled(revisions, t, row)
    BY <1>1, <1>6, <2>1 DEF Chronicled
  <2>3. row # NoRow /\ row.approved => Reviewed(row.body)
    BY <1>1, <2>1 DEF Undisturbed, Unrecorded, Busy
  <2> QED
    BY <1>7, <2>1, <2>2, <2>3, <2>4 DEF Reviewed
<1> QED
  BY <1>1, <1>3, <1>6, <1>7, <1>8, <1>9, Moves, Distinct DEF IInv, Base, TypeOK

\* A save writes the approval, and the body when it writes every column.
LEMMA Writes ==
  ASSUME NEW f \in Function, NEW t \in Task, row \in Function
  PROVE  /\ Written(f, t) \in Function
         /\ Written(f, t).approved = f.approved
         /\ t.whole => Written(f, t) = f
         /\ ~t.whole => Written(f, t).body = row.body /\ Written(f, t).version = row.version
<1>1. CASE t.whole
  BY <1>1 DEF Written, Function
<1>2. CASE ~t.whole /\ t.call = "approve"
  <2>1. Written(f, t) = [row EXCEPT !.approved = f.approved, !.approvedBy = f.approvedBy]
    BY <1>2 DEF Written
  <2> QED
    BY <1>2, <2>1 DEF Function
<1>3. CASE ~t.whole /\ t.call # "approve"
  <2>1. Written(f, t) = [row EXCEPT !.approved = f.approved]
    BY <1>3 DEF Written
  <2> QED
    BY <1>3, <2>1 DEF Function
<1> QED
  BY <1>1, <1>2, <1>3

\* The UPDATE keeps the invariant.
LEMMA UpdateStep ==
  ASSUME IInv, NEW p \in Process, Update(p), Remember
  PROVE  IInv'
<1>1. Busy(p) /\ task[p].next = "update" /\ task[p].call # "edit" /\ task[p] \in Task /\ copy[p] \in Function
      /\ Kind(copy[p], task[p]) /\ row \in Function
  BY Busied DEF Update, At, Busy, IInv
<1>2. PICK t : t = [task[p] EXCEPT !.next = "post_save"]
  OBVIOUS
<1>3. /\ t \in Task /\ t.next = "post_save" /\ t.whole = task[p].whole /\ t.call = task[p].call
      /\ t.whole \in BOOLEAN /\ t.changed = task[p].changed
  BY <1>1, <1>2 DEF Task
<1>4. /\ copy' = [copy EXCEPT ![p] = copy[p]] /\ task' = [task EXCEPT ![p] = t]
      /\ row' = Written(copy[p], task[p]) /\ UNCHANGED <<revisions, cache>>
  BY <1>2, <1>3 DEF Update, IInv, Base, TypeOK
<1>5. Kind(copy[p], t)
  BY <1>1, <1>3 DEF Kind
<1>6. /\ row' \in Function /\ row' # NoRow /\ row'.approved = copy[p].approved
      /\ t.whole => row'.body = copy[p].body /\ row'.version = copy[p].version
      /\ ~t.whole => row'.body = row.body /\ row'.version = row.version
  BY <1>1, <1>3, <1>4, Writes, Distinct
<1>7. ASSUME ~disturbed'
      PROVE  /\ \A q \in Process \ {p} : ~Busy(q)
             /\ Follows(copy[p], t, row')
             /\ row' # NoRow /\ row'.approved => Reviewed(row.body)' \/ Unrecorded(t)
             /\ Chronicled(revisions', t, row')
  <2>1. /\ Follows(copy[p], task[p], row) /\ Undisturbed /\ \A q \in Process \ {p} : ~Busy(q)
        /\ Chronicled(revisions, task[p], row)
    BY <1>1, <1>7, Only
  <2>2. Follows(copy[p], t, row')
    BY <1>1, <1>3, <1>6, <2>1 DEF Follows
  <2>3. row'.approved /\ t.whole => Reviewed(row.body)'
    <3>1. SUFFICES ASSUME row'.approved, t.whole  PROVE Reviewed(row.body)'
      OBVIOUS
    <3>2. row.approved /\ row'.body = row.body
      BY <1>1, <1>3, <1>6, <2>1, <3>1 DEF Follows
    <3>3. Reviewed(row.body)
      BY <1>1, <2>1, <3>2 DEF Undisturbed, Unrecorded, Busy, Follows
    <3> QED
      BY <1>4, <3>2, <3>3 DEF Reviewed
  <2>4. ~t.whole => Unrecorded(t)
    BY <1>3, Distinct DEF Unrecorded
  <2>5. Chronicled(revisions, t, row')
    <3>1. Told(revisions, row.version, row.body) /\ row.version \in Nat /\ row.body \in Body
      BY <1>1, <2>1, Distinct DEF Chronicled, Function
    <3>2. CASE t.changed
      <4>1. row'.version = row.version + 1 /\ row.body # row'.body
        BY <1>1, <1>3, <1>6, <2>1, <3>2 DEF Follows
      <4> QED
        BY <1>3, <3>1, <3>2, <4>1, Distinct DEF Chronicled
    <3>3. CASE ~t.changed
      <4>1. row'.version = row.version /\ row'.body = row.body
        BY <1>1, <1>3, <1>6, <2>1, <3>3 DEF Follows
      <4> QED
        BY <3>1, <3>3, <4>1 DEF Chronicled
    <3> QED
      BY <3>2, <3>3
  <2> QED
    BY <1>4, <2>1, <2>2, <2>3, <2>4, <2>5
<1> QED
  BY <1>1, <1>3, <1>4, <1>5, <1>6, <1>7, Moves DEF IInv, Base, TypeOK

\* What is written to the history, if anything: the entry of the version of the copy.
LEMMA PostSaves ==
  ASSUME IInv, NEW p \in Process, Busy(p), revisions' = PostSaved(p)
  PROVE  /\ revisions' \in Seq(Revision) /\ \A x : Reviewed(x) => Reviewed(x)'
         /\ ~task[p].changed => revisions' = revisions
         /\ \A v \in Nat, b \in Body :
              /\ task[p].changed /\ copy[p].version = v + 1 /\ copy[p].body # b /\ Told(revisions, v, b)
              => Told(revisions', copy[p].version, copy[p].body)
<1>1. copy[p] \in Function /\ TypeOK /\ revisions \in Seq(Revision)
  BY Busied DEF IInv, Base, TypeOK
<1>2. CASE ~task[p].changed
  BY <1>1, <1>2 DEF PostSaved, TypeOK, Reviewed
<1>3. CASE task[p].changed
  <2>1. revisions' = Revised(copy[p].version, "updated", copy[p].body, copy[p].updatedBy)
    BY <1>3 DEF PostSaved
  <2>2. revisions' \in Seq(Revision) /\ \A x : Reviewed(x) => Reviewed(x)'
    BY <1>1, <2>1, Revises DEF Function, Content
  <2>3. PICK r : r = [version |-> copy[p].version, action |-> "updated", body |-> copy[p].body,
                      by |-> copy[p].updatedBy]
    OBVIOUS
  <2>4. /\ r \in Revision /\ r.action \in Content /\ r.version = copy[p].version /\ r.body = copy[p].body
        /\ revisions' = Append(revisions, r)
    BY <1>1, <2>1, <2>3 DEF Function, Revision, Content, Revised
  <2>5. ASSUME NEW v \in Nat, NEW b \in Body, copy[p].version = v + 1, copy[p].body # b, Told(revisions, v, b)
        PROVE  Told(revisions', copy[p].version, copy[p].body)
    <3>1. Told(Append(revisions, r), v + 1, r.body)
      BY <1>1, <2>4, <2>5, ToldMore
    <3> QED
      BY <2>4, <2>5, <3>1
  <2> QED
    BY <1>3, <2>2, <2>5
<1> QED
  BY <1>2, <1>3

\* post_save keeps the invariant.
LEMMA PostSaveStep ==
  ASSUME IInv, NEW p \in Process, PostSave(p), Remember
  PROVE  IInv'
<1>1. Busy(p) /\ task[p].next = "post_save" /\ task[p] \in Task /\ copy[p] \in Function
      /\ Kind(copy[p], task[p]) /\ row \in Function
  BY Busied DEF PostSave, At, Busy, IInv
<1>2. revisions' \in Seq(Revision) /\ (\A x : Reviewed(x) => Reviewed(x)') /\ UNCHANGED <<row, cache>>
  BY <1>1, PostSaves DEF PostSave
<1>3. ASSUME ~disturbed'
      PROVE  /\ \A q \in Process \ {p} : ~Busy(q)
             /\ copy[p].body = row.body /\ copy[p].version = row.version
             /\ ~task[p].whole => ~task[p].changed
             /\ row.approved /\ task[p].whole => Reviewed(row.body)
             /\ Told(revisions', row.version, row.body)
  <2>1. /\ Follows(copy[p], task[p], row) /\ Undisturbed /\ \A q \in Process \ {p} : ~Busy(q)
        /\ Chronicled(revisions, task[p], row)
    BY <1>1, <1>3, Only
  <2>2. /\ copy[p].body = row.body /\ copy[p].version = row.version
        /\ ~task[p].whole => ~task[p].changed
        /\ row.approved /\ task[p].whole => Reviewed(row.body)
    BY <1>1, <2>1 DEF Follows, Undisturbed, Unrecorded, Busy
  <2>3. CASE task[p].changed
    <3>1. \E v \in Nat, b \in Body : row.version = v + 1 /\ b # row.body /\ Told(revisions, v, b)
      BY <1>1, <2>1, <2>3, Distinct DEF Chronicled
    <3> QED
      BY <1>1, <2>1, <2>2, <2>3, <3>1, PostSaves DEF PostSave
  <2>4. CASE ~task[p].changed
    <3>1. Told(revisions, row.version, row.body)
      BY <1>1, <2>1, <2>4, Distinct DEF Chronicled
    <3> QED
      BY <1>1, <2>1, <2>2, <2>4, <3>1, PostSaves DEF PostSave
  <2> QED
    BY <2>1, <2>2, <2>3, <2>4
<1>4. CASE task[p].whole /\ ~copy[p].approved
  <2>1. PICK t, c : t = [task[p] EXCEPT !.whole = FALSE, !.next = "pre_save"] /\ c = [copy[p] EXCEPT !.approved = TRUE]
    OBVIOUS
  <2>2. /\ t \in Task /\ t.next = "pre_save" /\ ~t.whole /\ t.call = task[p].call /\ c \in Function
        /\ c.body = copy[p].body /\ c.version = copy[p].version
    BY <1>1, <2>1 DEF Task, Function
  <2>3. copy' = [copy EXCEPT ![p] = c] /\ task' = [task EXCEPT ![p] = t]
    <3>1. /\ copy' = [copy EXCEPT ![p].approved = TRUE]
          /\ task' = [task EXCEPT ![p].whole = FALSE, ![p].next = "pre_save"]
      BY <1>4 DEF PostSave
    <3> QED
      BY <2>1, <3>1 DEF IInv, Base, TypeOK
  <2>4. Kind(c, t)
    BY <1>1, <2>2, Distinct DEF Kind
  <2>5. ASSUME ~disturbed'
        PROVE  Follows(c, t, row') /\ (row'.approved => Reviewed(row.body)') /\ Chronicled(revisions', t, row')
    <3>1. Follows(c, t, row')
      BY <1>1, <1>2, <1>3, <2>2, <2>5, Distinct DEF Follows
    <3>2. Chronicled(revisions', t, row')
      BY <1>2, <1>3, <2>2, <2>5 DEF Chronicled
    <3> QED
      BY <1>2, <1>3, <1>4, <2>5, <3>1, <3>2 DEF Reviewed
  <2> QED
    BY <1>1, <1>2, <1>3, <2>2, <2>3, <2>4, <2>5, Moves, Distinct DEF IInv, Base, TypeOK
<1>5. CASE task[p].whole /\ copy[p].approved
  <2>1. copy' = [copy EXCEPT ![p] = copy[p]] /\ task' = [task EXCEPT ![p] = Idle]
    BY <1>5 DEF PostSave, IInv, Base, TypeOK
  <2>2. ASSUME ~disturbed'
        PROVE  (row'.approved => Reviewed(row.body)') /\ Chronicled(revisions', Idle, row')
    <3>1. Chronicled(revisions', Idle, row')
      BY <1>2, <1>3, <2>2 DEF Chronicled
    <3> QED
      BY <1>2, <1>3, <1>5, <2>2, <3>1 DEF Reviewed
  <2> QED
    BY <1>1, <1>2, <1>3, <2>1, <2>2, Moves, Distinct
<1>6. CASE ~task[p].whole
  <2>1. PICK t : t = [task[p] EXCEPT !.next = "revision"]
    OBVIOUS
  <2>2. /\ t \in Task /\ t.next = "revision" /\ ~t.whole /\ t.call = task[p].call
        /\ t.changed = task[p].changed
    BY <1>1, <1>6, <2>1 DEF Task
  <2>3. copy' = [copy EXCEPT ![p] = copy[p]] /\ task' = [task EXCEPT ![p] = t]
    BY <1>6, <2>1 DEF PostSave, IInv, Base, TypeOK
  <2>4. Kind(copy[p], t)
    BY <1>1, <2>2, Distinct DEF Kind
  <2>5. ASSUME ~disturbed'
        PROVE  Follows(copy[p], t, row') /\ Unrecorded(t) /\ Chronicled(revisions', t, row')
    <3>1. Follows(copy[p], t, row')
      BY <1>1, <1>2, <1>3, <1>6, <2>2, <2>5, Distinct DEF Follows
    <3>2. Chronicled(revisions', t, row')
      BY <1>2, <1>3, <2>2, <2>5 DEF Chronicled
    <3> QED
      BY <2>2, <3>1, <3>2, Distinct DEF Unrecorded
  <2> QED
    BY <1>1, <1>2, <1>3, <2>2, <2>3, <2>4, <2>5, Moves, Distinct DEF IInv, Base, TypeOK
<1> QED
  BY <1>4, <1>5, <1>6

\* The revision of an approval keeps the invariant.
LEMMA AddRevisionStep ==
  ASSUME IInv, NEW p \in Process, AddRevision(p), Remember
  PROVE  IInv'
<1>1. Busy(p) /\ task[p].next = "revision" /\ task[p] \in Task /\ copy[p] \in Function
      /\ Kind(copy[p], task[p]) /\ row \in Function /\ TypeOK
  BY Busied DEF AddRevision, At, Busy, IInv, Base
<1>2. PICK a \in Approving : revisions' = Revised(copy[p].version, a, copy[p].body, task[p].by)
  BY DEF AddRevision, Approving
<1>3. /\ revisions' \in Seq(Revision) /\ (\A x : Reviewed(x) => Reviewed(x)')
      /\ Reviewed(copy[p].body)'
  <2>1. copy[p].version \in Nat /\ copy[p].body \in Body /\ task[p].by \in Actor
    BY <1>1 DEF Function, Task
  <2>2. PICK b \in Body : b = copy[p].body
    BY <2>1
  <2>3. Reviewed(b)' /\ revisions' \in Seq(Revision) /\ (\A x : Reviewed(x) => Reviewed(x)')
    BY <1>1, <1>2, <2>1, <2>2, Revises
  <2>4. copy'[p] = copy[p]
    BY DEF AddRevision
  <2> QED
    BY <2>2, <2>3, <2>4 DEF Reviewed
<1>4. /\ copy' = [copy EXCEPT ![p] = copy[p]] /\ task' = [task EXCEPT ![p] = Idle]
      /\ UNCHANGED <<row, cache>>
  BY DEF AddRevision, IInv, Base, TypeOK
<1>5. ASSUME ~disturbed'
      PROVE  /\ (\A q \in Process \ {p} : ~Busy(q)) /\ Reviewed(row.body)'
             /\ Chronicled(revisions', Idle, row')
  <2>1. /\ Follows(copy[p], task[p], row) /\ \A q \in Process \ {p} : ~Busy(q)
        /\ Chronicled(revisions, task[p], row)
    BY <1>1, <1>5, Only
  <2>2. copy[p].body = row.body
    BY <1>1, <2>1 DEF Follows, Kind
  <2>3. Told(revisions, row.version, row.body)
    BY <1>1, <2>1, Distinct DEF Chronicled
  <2>4. PICK r : r = [version |-> copy[p].version, action |-> a, body |-> copy[p].body, by |-> task[p].by]
    OBVIOUS
  <2>5. r \in Revision /\ r.action \in Approving /\ revisions' = Append(revisions, r) /\ revisions \in Seq(Revision)
    BY <1>1, <1>2, <2>4 DEF Function, Task, Revision, Revised, TypeOK
  <2>6. Told(revisions', row.version, row.body)
    BY <2>3, <2>5, ToldStill
  <2>7. Chronicled(revisions', Idle, row')
    BY <1>4, <2>6 DEF Chronicled, Idle
  <2> QED
    BY <1>3, <1>4, <2>1, <2>2, <2>7 DEF Reviewed
<1> QED
  BY <1>1, <1>3, <1>4, <1>5, Moves, Distinct

\* The save of the form keeps the invariant.
LEMMA CommitEditStep ==
  ASSUME IInv, NEW p \in Process, CommitEdit(p), Remember
  PROVE  IInv'
<1>1. Busy(p) /\ task[p].next = "update" /\ task[p] \in Task /\ copy[p] \in Function
      /\ Kind(copy[p], task[p]) /\ row \in Function /\ task[p].call = "edit"
  BY Busied DEF CommitEdit, At, Busy, IInv
<1>2. revisions' \in Seq(Revision) /\ (\A x : Reviewed(x) => Reviewed(x)')
  BY <1>1, PostSaves DEF CommitEdit
<1>3. /\ copy' = [copy EXCEPT ![p] = copy[p]] /\ task' = [task EXCEPT ![p] = Idle]
      /\ row' = copy[p] /\ cache' = cache
  BY <1>1, Writes DEF CommitEdit, IInv, Base, TypeOK, Kind
<1>4. ASSUME ~disturbed'
      PROVE  /\ (\A q \in Process \ {p} : ~Busy(q)) /\ (row'.approved => Reviewed(row.body)')
             /\ Chronicled(revisions', Idle, row')
  <2>1. /\ Follows(copy[p], task[p], row) /\ Undisturbed /\ \A q \in Process \ {p} : ~Busy(q)
        /\ Chronicled(revisions, task[p], row)
    BY <1>1, <1>4, Only
  <2>2. row'.approved => row.approved /\ row'.body = row.body
    BY <1>1, <1>3, <2>1 DEF Follows, Kind
  <2>3. row.approved => Reviewed(row.body)
    BY <1>1, <2>1 DEF Undisturbed, Unrecorded, Busy, Kind, Follows
  <2>4. Told(revisions, row.version, row.body) /\ row.version \in Nat /\ row.body \in Body
    BY <1>1, <2>1, Distinct DEF Chronicled, Function
  <2>5. /\ task[p].changed => copy[p].version = row.version + 1 /\ copy[p].body # row.body
        /\ ~task[p].changed => copy[p].version = row.version /\ copy[p].body = row.body
    BY <1>1, <2>1 DEF Follows, Kind
  <2>6. Told(revisions', copy[p].version, copy[p].body)
    BY <1>1, <2>4, <2>5, PostSaves DEF CommitEdit
  <2>7. Chronicled(revisions', Idle, row')
    BY <1>3, <2>6 DEF Chronicled
  <2> QED
    BY <1>2, <2>1, <2>2, <2>3, <2>7 DEF Reviewed
<1> QED
  BY <1>1, <1>2, <1>3, <1>4, Moves, Distinct

-----------------------------------------------------------------------------
(* The calls start; and what is no call.                                   *)

\* A step of p that is no part of a call.
LEMMA Aside ==
  ASSUME IInv, NEW p \in Process, NEW c \in Function \cup {NoRow}, NEW e \in CacheEntry \cup {NotLoaded},
         copy' = [copy EXCEPT ![p] = c], cache' = [cache EXCEPT ![p] = e], task' = [task EXCEPT ![p] = Idle],
         UNCHANGED <<row, revisions>>, Remember, c # NoRow => row # NoRow,
         e # NotLoaded => e.function.source = e.body, ~disturbed' => task[p] = Idle
  PROVE  IInv'
<1>1. /\ copy'[p] = c /\ cache'[p] = e /\ task'[p] = Idle
      /\ \A q \in Process \ {p} : copy'[q] = copy[q] /\ cache'[q] = cache[q] /\ task'[q] = task[q]
      /\ copy' \in [Process -> Function \cup {NoRow}] /\ task' \in [Process -> Task \cup {Idle}]
      /\ cache' \in [Process -> CacheEntry \cup {NotLoaded}]
  BY DEF IInv, Base, TypeOK
<1>2. disturbed' \in BOOLEAN
  BY DEF IInv, Base, TypeOK, Remember, Disturbs
<1>3. TypeOK' /\ Compiles'
  BY <1>1, <1>2 DEF IInv, Base, TypeOK, Compiles
<1>4. \A q \in Process : /\ Busy(q)' => Kind(copy'[q], task'[q])
                         /\ copy'[q] # NoRow => row' # NoRow
  BY <1>1 DEF IInv, Base, Busy
<1>5. ASSUME ~disturbed'  PROVE Undisturbed'
  <2>1. task[p] = Idle /\ Undisturbed
    BY <1>5 DEF IInv, Remember
  <2>2. task' = task
    BY <2>1 DEF IInv, Base, TypeOK
  <2>3. \A q \in Process : Busy(q)' => Follows(copy'[q], task'[q], row') /\ Busy(q)
    BY <1>1, <2>1, <2>2 DEF Undisturbed, Busy
  <2>4. \A b : Reviewed(b)' <=> Reviewed(b)
    BY DEF Reviewed
  <2>5. Reviewed(row.body)' <=> Reviewed(row.body)
    BY DEF Reviewed
  <2> QED
    BY <2>1, <2>2, <2>3, <2>5 DEF Undisturbed, Busy
<1> QED
  BY <1>3, <1>4, <1>5 DEF IInv, Base

\* Loading a function keeps the invariant.
LEMMA OpenStep ==
  ASSUME IInv, NEW p \in Process, Open(p), Remember
  PROVE  IInv'
<1>1. /\ copy' = [copy EXCEPT ![p] = row] /\ cache' = [cache EXCEPT ![p] = cache[p]]
      /\ task' = [task EXCEPT ![p] = Idle] /\ task[p] = Idle /\ UNCHANGED <<row, revisions>> /\ row # NoRow
      /\ row \in Function \cup {NoRow} /\ cache[p] \in CacheEntry \cup {NotLoaded}
      /\ cache[p] # NotLoaded => cache[p].function.source = cache[p].body
  BY DEF Open, IInv, Base, TypeOK, Compiles
<1> QED
  BY <1>1, Aside

\* What a process compiles or finds in its cache is the body of its copy.
LEMMA EntryTyped ==
  ASSUME IInv, NEW p \in Process, Runnable(p)
  PROVE  Entry(p) \in CacheEntry /\ Entry(p).function.source = copy[p].body /\ Entry(p).body = copy[p].body
<1>1. /\ copy[p] \in Function /\ copy[p].body \in Body /\ copy[p].version \in Nat
      /\ cache[p] \in CacheEntry \cup {NotLoaded}
      /\ cache[p] # NotLoaded => cache[p].function.source = cache[p].body
  BY DEF Runnable, IInv, Base, TypeOK, Compiles, Function
<1>2. CASE Fresh(p)
  BY <1>1, <1>2 DEF Fresh, Entry
<1>3. CASE ~Fresh(p)
  <2>1. Entry(p) = [function |-> [source |-> copy[p].body], version |-> copy[p].version, body |-> copy[p].body]
    BY <1>3 DEF Entry, Load
  <2> QED
    BY <1>1, <2>1 DEF CacheEntry, Compiled
<1> QED
  BY <1>2, <1>3

\* Running a function keeps the invariant.
LEMMA RunStep ==
  ASSUME IInv, NEW p \in Process, Run(p), Remember
  PROVE  IInv'
<1>1. Entry(p) \in CacheEntry /\ Entry(p).function.source = Entry(p).body
  BY EntryTyped DEF Run
<1>2. /\ copy' = [copy EXCEPT ![p] = copy[p]] /\ cache' = [cache EXCEPT ![p] = Entry(p)]
      /\ task' = [task EXCEPT ![p] = Idle] /\ task[p] = Idle /\ UNCHANGED <<row, revisions>>
      /\ copy[p] \in Function \cup {NoRow} /\ (copy[p] # NoRow => row # NoRow)
  BY DEF Run, Runnable, IInv, Base, TypeOK
<1> QED
  BY <1>1, <1>2, Aside

\* The end of a process keeps the invariant.
LEMMA CrashStep ==
  ASSUME IInv, NEW p \in Process, Crash(p), Remember
  PROVE  IInv'
<1>1. /\ copy' = [copy EXCEPT ![p] = NoRow] /\ cache' = [cache EXCEPT ![p] = NotLoaded]
      /\ task' = [task EXCEPT ![p] = Idle] /\ UNCHANGED <<row, revisions>>
  BY DEF Crash
<1>2. copy'[p] = NoRow
  BY <1>1 DEF IInv, Base, TypeOK
<1>3. ~disturbed' => task[p] = Idle
  BY <1>2 DEF Remember, Disturbs
<1> QED
  BY <1>1, <1>3, Aside

\* The call that starts.
LEMMA StartedTyped ==
  ASSUME NEW call \in {"edit", "approve", "register"}, NEW by \in Actor, NEW whole \in BOOLEAN,
         NEW self \in BOOLEAN, NEW c \in Function, call = "edit" => whole
  PROVE  LET t == Started(call, by, whole, self)
         IN /\ t \in Task /\ t # Idle /\ t.call = call /\ t.whole = whole /\ t.next = "pre_save"
            /\ Kind(c, t)
<1>1. PICK t : t = Started(call, by, whole, self)
  OBVIOUS
<1>2. t \in Task /\ t.call = call /\ t.whole = whole /\ t.next = "pre_save"
  BY <1>1 DEF Started, Task
<1> QED
  BY <1>1, <1>2, Distinct DEF Kind

\* The entry of the creation is the first.
LEMMA Creates ==
  ASSUME NEW b \in Body, NEW u \in Actor, revisions = <<>>, revisions' = Revised(1, "created", b, u)
  PROVE  Told(revisions', 1, b)
<1>1. PICK r : r = [version |-> 1, action |-> "created", body |-> b, by |-> u]
  OBVIOUS
<1>2. /\ r \in Revision /\ r.action \in Content /\ r.version = 0 + 1 /\ r.body = b
      /\ revisions' = Append(<<>>, r) /\ <<>> \in Seq(Revision)
  BY <1>1 DEF Revision, Content, Revised
<1>3. Told(Append(<<>>, r), 0 + 1, r.body)
  BY <1>2, ToldNothing, ToldMore
<1> QED
  BY <1>2, <1>3

\* A form that adds a function keeps the invariant.
LEMMA AddStep ==
  ASSUME IInv, NEW p \in Process, NEW u \in User, NEW b \in Body, Add(p, u, b), Remember
  PROVE  IInv'
<1>1. PICK f : f = [body |-> b, version |-> 0, updatedBy |-> u, approved |-> FALSE, approvedBy |-> NoOne]
  OBVIOUS
<1>2. f \in Function /\ f.approved = FALSE /\ f.version = 0 /\ f.body = b /\ u \in Actor
  BY <1>1 DEF Function, Actor
<1>3. PICK g : g = PreSaved(f)
  OBVIOUS
<1>4. g \in Function /\ g.approved = FALSE /\ g # NoRow /\ g.version = 1 /\ g.body = b
  BY <1>2, <1>3, PreSaves, Distinct DEF Add, Function
<1>5. /\ task[p] = Idle /\ row = NoRow /\ row' = g /\ copy' = [copy EXCEPT ![p] = g]
      /\ revisions' = Revised(g.version, "created", b, u) /\ cache' = cache
      /\ task' = [task EXCEPT ![p] = Idle]
  BY <1>1, <1>3 DEF Add, MayStart, IInv, Base, TypeOK
<1>6. \A q \in Process : ~Busy(q)
  BY <1>5, Busied, Distinct DEF IInv
<1>7. revisions' \in Seq(Revision)
  BY <1>2, <1>4, <1>5, Revises DEF Content, IInv, Base
<1>8. Told(revisions', 1, b)
  BY <1>2, <1>4, <1>5, Creates DEF IInv, Base
<1>9. Chronicled(revisions', Idle, row')
  BY <1>4, <1>5, <1>8 DEF Chronicled
<1> QED
  BY <1>4, <1>5, <1>6, <1>7, <1>9, Moves

\* A form that edits a function keeps the invariant.
LEMMA EditStep ==
  ASSUME IInv, NEW p \in Process, NEW u \in User, NEW b \in Body, Edit(p, u, b), Remember
  PROVE  IInv'
<1>1. PICK c, t : c = [copy[p] EXCEPT !.body = b, !.updatedBy = u] /\ t = Started("edit", u, TRUE, FALSE)
  OBVIOUS
<1>2. copy[p] \in Function /\ copy[p] # NoRow /\ task[p] = Idle /\ row \in Function /\ row # NoRow
  BY DEF Edit, MayStart, IInv, Base, TypeOK
<1>3. c \in Function /\ c.approved = copy[p].approved /\ c.version = copy[p].version
  BY <1>1, <1>2 DEF Function, Actor
<1>4. t \in Task /\ t # Idle /\ t.call = "edit" /\ t.whole /\ t.next = "pre_save" /\ Kind(c, t)
  BY <1>1, <1>3, StartedTyped DEF Actor
<1>5. copy' = [copy EXCEPT ![p] = c] /\ task' = [task EXCEPT ![p] = t] /\ UNCHANGED <<row, revisions, cache>>
  BY <1>1 DEF Edit, IInv, Base, TypeOK
<1>6. ASSUME ~disturbed'
      PROVE  /\ (\A q \in Process : ~Busy(q)) /\ Follows(c, t, row') /\ (row.approved => Reviewed(row.body))
             /\ Chronicled(revisions', t, row')
  <2>1. /\ copy[p] = row /\ (\A q \in Process : ~Busy(q)) /\ (row.approved => Reviewed(row.body))
        /\ Chronicled(revisions, Idle, row)
    BY <1>2, <1>4, <1>5, <1>6, Starts
  <2>2. Chronicled(revisions', t, row')
    BY <1>4, <1>5, <2>1 DEF Chronicled
  <2> QED
    BY <1>2, <1>3, <1>4, <1>5, <2>1, <2>2 DEF Follows
<1>7. Reviewed(row.body)' <=> Reviewed(row.body)
  BY <1>5 DEF Reviewed
<1> QED
  BY <1>2, <1>3, <1>4, <1>5, <1>6, <1>7, Moves DEF IInv, Base, TypeOK

\* The action that approves functions keeps the invariant.
LEMMA ApproveStep ==
  ASSUME IInv, NEW p \in Process, NEW u \in User, ApproveFunctions(p, u), Remember
  PROVE  IInv'
<1>1. PICK self \in BOOLEAN : self = (copy[p].updatedBy = u)
  OBVIOUS
<1>2. PICK c, t : c = [copy[p] EXCEPT !.approved = TRUE, !.approvedBy = u] /\ t = Started("approve", u, FALSE, self)
  OBVIOUS
<1>3. copy[p] \in Function /\ copy[p] # NoRow /\ task[p] = Idle /\ row \in Function /\ row # NoRow
  BY DEF ApproveFunctions, MayStart, IInv, Base, TypeOK
<1>4. c \in Function /\ c.body = copy[p].body /\ c.version = copy[p].version
  BY <1>2, <1>3 DEF Function, Actor
<1>5. t \in Task /\ t # Idle /\ t.call = "approve" /\ t.whole = FALSE /\ t.next = "pre_save" /\ Kind(c, t)
  <2>1. u \in Actor
    BY DEF Actor
  <2>2. t \in Task /\ t.call = "approve" /\ t.whole = FALSE /\ t.next = "pre_save"
    BY <1>2, <2>1 DEF Started, Task
  <2> QED
    BY <1>3, <1>4, <2>2, Distinct DEF Kind
<1>6. copy' = [copy EXCEPT ![p] = c] /\ task' = [task EXCEPT ![p] = t] /\ UNCHANGED <<row, revisions, cache>>
  BY <1>1, <1>2 DEF ApproveFunctions, Approve, IInv, Base, TypeOK
<1>7. ASSUME ~disturbed'
      PROVE  /\ (\A q \in Process : ~Busy(q)) /\ Follows(c, t, row') /\ (row.approved => Reviewed(row.body))
             /\ Chronicled(revisions', t, row')
  <2>1. /\ copy[p] = row /\ (\A q \in Process : ~Busy(q)) /\ (row.approved => Reviewed(row.body))
        /\ Chronicled(revisions, Idle, row)
    BY <1>3, <1>5, <1>6, <1>7, Starts
  <2>2. Chronicled(revisions', t, row')
    BY <1>5, <1>6, <2>1 DEF Chronicled
  <2> QED
    BY <1>3, <1>4, <1>5, <1>6, <2>1, <2>2 DEF Follows
<1>8. Reviewed(row.body)' <=> Reviewed(row.body)
  BY <1>6 DEF Reviewed
<1> QED
  BY <1>3, <1>4, <1>5, <1>6, <1>7, <1>8, Moves DEF IInv, Base, TypeOK

\* create_function keeps the invariant.
LEMMA RegisterStep ==
  ASSUME IInv, NEW p \in Process, Register(p), Remember
  PROVE  IInv'
<1>1. task[p] = Idle /\ CodeBody[p] \in Body /\ TypeOK /\ row \in Function \cup {NoRow}
  BY FunctionAssumption DEF Register, MayStart, IInv, Base, TypeOK
<1>2. PICK b \in Body : b = CodeBody[p]
  BY <1>1
<1>3. CASE row = NoRow
  <2>1. PICK f : f = [body |-> b, version |-> 0, updatedBy |-> NoOne, approved |-> FALSE, approvedBy |-> NoOne]
    OBVIOUS
  <2>2. f \in Function /\ f.approved = FALSE /\ f.body = b /\ f.version = 0
    BY <2>1 DEF Function, Actor
  <2>3. PICK g : g = PreSaved(f)
    OBVIOUS
  <2>4. g \in Function /\ g.approved = FALSE /\ g # NoRow /\ g.version = 1 /\ g.body = b
    BY <1>3, <2>2, <2>3, PreSaves, Distinct DEF Function
  <2>5. PICK c, t : c = [g EXCEPT !.approved = TRUE] /\ t = Started("register", NoOne, FALSE, FALSE)
    OBVIOUS
  <2>6. c \in Function /\ c.body = b /\ c.version = 1
    BY <2>4, <2>5 DEF Function
  <2>7. t \in Task /\ t # Idle /\ t.whole = FALSE /\ t.next = "pre_save" /\ Kind(c, t)
    BY <2>5, <2>6, StartedTyped DEF Actor
  <2>8. /\ row' = g /\ revisions' = Revised(g.version, "created", b, NoOne)
        /\ copy' = [copy EXCEPT ![p] = c] /\ task' = [task EXCEPT ![p] = t] /\ cache' = cache
    BY <1>2, <1>3, <2>1, <2>3, <2>5 DEF Register
  <2>9. revisions' \in Seq(Revision)
    BY <1>1, <2>4, <2>8, Revises DEF Content, Actor
  <2>10. \A q \in Process : ~Busy(q)
    BY <1>3, Busied, Distinct DEF IInv
  <2>11. Follows(c, t, row')
    BY <2>4, <2>6, <2>7, <2>8 DEF Follows
  <2>12. Told(revisions', 1, b)
    <3>1. NoOne \in Actor /\ revisions = <<>> /\ revisions' = Revised(1, "created", b, NoOne)
      BY <1>3, <2>4, <2>8 DEF Actor, IInv, Base
    <3> QED
      BY <3>1, Creates
  <2>13. Chronicled(revisions', t, row')
    BY <2>4, <2>7, <2>8, <2>12 DEF Chronicled
  <2> QED
    BY <2>4, <2>6, <2>7, <2>8, <2>9, <2>10, <2>11, <2>13, Moves
<1>4. CASE row # NoRow
  <2>0. row \in Function
    BY <1>1, <1>4
  <2>1. PICK whole \in BOOLEAN :
         \E c \in {[row EXCEPT !.body = b], [row EXCEPT !.approved = TRUE]} :
          \E t \in {Started("register", NoOne, TRUE, FALSE), Started("register", NoOne, FALSE, FALSE)} :
          /\ t = Started("register", NoOne, whole, FALSE)
          /\ \/ whole /\ c = [row EXCEPT !.body = b]
             \/ ~whole /\ row.body = b /\ c = [row EXCEPT !.approved = TRUE]
          /\ copy' = [copy EXCEPT ![p] = c] /\ task' = [task EXCEPT ![p] = t]
    BY <1>2, <1>4 DEF Register
  <2>2. PICK c, t :
          /\ t = Started("register", NoOne, whole, FALSE)
          /\ \/ whole /\ c = [row EXCEPT !.body = b]
             \/ ~whole /\ row.body = b /\ c = [row EXCEPT !.approved = TRUE]
          /\ copy' = [copy EXCEPT ![p] = c] /\ task' = [task EXCEPT ![p] = t]
    BY <2>1
  <2>3. UNCHANGED <<row, revisions, cache>>
    BY <1>4 DEF Register
  <2>4. /\ c \in Function /\ (whole => c.approved = row.approved) /\ (~whole => c.body = row.body)
        /\ c.version = row.version
    BY <2>0, <2>2 DEF Function
  <2>5. t \in Task /\ t # Idle /\ t.whole = whole /\ t.next = "pre_save" /\ Kind(c, t)
    <3>1. NoOne \in Actor
      BY DEF Actor
    <3>2. t \in Task /\ t.call = "register" /\ t.whole = whole /\ t.next = "pre_save"
      BY <2>2, <3>1 DEF Started, Task
    <3> QED
      BY <2>4, <3>2, Distinct DEF Kind
  <2>6. ASSUME ~disturbed'
        PROVE  /\ (\A q \in Process : ~Busy(q)) /\ Follows(c, t, row') /\ (row.approved => Reviewed(row.body))
               /\ Chronicled(revisions', t, row')
    <3>1. /\ (\A q \in Process : ~Busy(q)) /\ (row.approved => Reviewed(row.body))
          /\ Chronicled(revisions, Idle, row)
      BY <1>1, <1>4, <2>2, <2>5, <2>6, Starts
    <3>2. Chronicled(revisions', t, row')
      BY <2>3, <2>5, <3>1 DEF Chronicled
    <3> QED
      BY <1>4, <2>3, <2>4, <2>5, <3>1, <3>2 DEF Follows
  <2>7. Reviewed(row.body)' <=> Reviewed(row.body)
    BY <2>3 DEF Reviewed
  <2> QED
    BY <1>1, <1>4, <2>0, <2>2, <2>3, <2>4, <2>5, <2>6, <2>7, Moves DEF TypeOK
<1> QED
  BY <1>3, <1>4

-----------------------------------------------------------------------------
(* Theorems.                                                               *)

\* Every step keeps the invariant.
LEMMA Steps == IInv /\ [Next]_vars => IInv'
<1> SUFFICES ASSUME IInv, [Next]_vars  PROVE IInv'
  OBVIOUS
<1>1. CASE UNCHANGED vars
  <2>1. \A p \in Process : Busy(p)' <=> Busy(p)
    BY <1>1 DEF vars, Busy
  <2>2. Reviewed(row.body)' <=> Reviewed(row.body)
    BY <1>1 DEF vars, Reviewed
  <2> QED
    BY <1>1, <2>1, <2>2 DEF vars, IInv, Base, TypeOK, Compiles, Undisturbed
<1>2. ASSUME NEW p \in Process, Continue(p), Remember  PROVE IInv'
  BY <1>2, PresaveStep, UpdateStep, PostSaveStep, AddRevisionStep, CommitEditStep DEF Continue
<1> QED
  BY <1>1, <1>2, OpenStep, RegisterStep, RunStep, CrashStep, ApproveStep, AddStep, EditStep DEF Next

\* There is no function at first.
LEMMA Initially == Init => IInv
<1> SUFFICES ASSUME Init  PROVE IInv
  OBVIOUS
<1>1. TypeOK
  <2>1. <<>> \in Seq(Revision)
    OBVIOUS
  <2>2. /\ row = NoRow /\ revisions \in Seq(Revision) /\ disturbed \in BOOLEAN
        /\ copy \in [Process -> {NoRow}] /\ task \in [Process -> {Idle}]
        /\ cache \in [Process -> {NotLoaded}]
    BY <2>1 DEF Init
  <2> QED
    BY <2>2 DEF TypeOK
<1>2. Compiles /\ \A p \in Process : ~Busy(p) /\ copy[p] = NoRow
  BY DEF Init, Compiles, Busy
<1>3. Undisturbed
  BY <1>2 DEF Init, Undisturbed, Chronicled
<1> QED
  BY <1>1, <1>2, <1>3 DEF Init, IInv, Base

\* The inductive invariant: what the copy of the only call under way has to do with the row.
THEOREM Invariance == Spec => []IInv
  BY Initially, Steps, PTL DEF Spec

\* The row, its history, the copies and the caches have their types.
THEOREM TypeCorrect == Spec => []TypeOK
<1>1. IInv => TypeOK
  BY DEF IInv, Base
<1> QED
  BY <1>1, Invariance, PTL

\* Whatever becomes of version numbers, a hook runs the body of the function it has loaded and
\* not one that its process compiled earlier.
THEOREM BodyRuns == Spec => []RunsItsBody
<1>1. IInv => RunsItsBody
  BY EntryTyped DEF RunsItsBody
<1> QED
  BY <1>1, Invariance, PTL

\* Unless calls have disturbed each other, an approval holds for the body it was given to.
THEOREM BodyReviewed == Spec => []ApprovedBodyWasReviewed
<1>1. ASSUME IInv  PROVE ApprovedBodyWasReviewed
  <2>1. SUFFICES ASSUME ~disturbed, row # NoRow, row.approved, NEW p \in Process, Unrecorded(task[p])
                 PROVE  BeingReviewed(row.body)
    BY <1>1 DEF ApprovedBodyWasReviewed, IInv, Undisturbed
  <2>2. Busy(p)
    BY <2>1 DEF Unrecorded, Busy
  <2>3. Kind(copy[p], task[p]) /\ Follows(copy[p], task[p], row)
    BY <1>1, <2>1, <2>2 DEF IInv, Base, Undisturbed
  <2> QED
    BY <2>1, <2>3 DEF Kind, Follows, Unrecorded, BeingReviewed
<1> QED
  BY <1>1, Invariance, PTL

\* Unless calls have disturbed each other, the history has one entry for each version, in order,
\* each with another body than the one before it, the last one with the body that is stored:
\* no edit goes without its entry, and none has two.
THEOREM EditsInHistory == Spec => []RevisionsAreEdits
<1>1. ASSUME IInv  PROVE RevisionsAreEdits
  <2>1. SUFFICES ASSUME ~disturbed, row # NoRow, \A p \in Process : At(p, "post_save") => ~task[p].whole
                 PROVE  Told(revisions, row.version, row.body)
    BY DEF RevisionsAreEdits, Recorded, Edits, Told, EntriesOf
  <2>2. CASE \E p \in Process : Busy(p)
    <3>1. PICK p \in Process : Busy(p)
      BY <2>2
    <3>2. Follows(copy[p], task[p], row) /\ Chronicled(revisions, task[p], row)
      BY <1>1, <2>1, <3>1 DEF IInv, Undisturbed
    <3>3. task[p].next = "post_save" => ~task[p].changed
      BY <2>1, <3>1, <3>2 DEF At, Busy, Follows
    <3> QED
      BY <2>1, <3>2, <3>3 DEF Chronicled
  <2>3. CASE \A p \in Process : ~Busy(p)
    BY <1>1, <2>1, <2>3 DEF IInv, Undisturbed, Chronicled
  <2> QED
    BY <2>2, <2>3
<1> QED
  BY <1>1, Invariance, PTL

=============================================================================

--------------------------- MODULE ApnPayloadProofs ---------------------------
(***************************************************************************)
(* The safety of a payload and of the array of arguments, for any number   *)
(* of calls.                                                               *)
(***************************************************************************)
EXTENDS ApnPayload, SequenceTheorems, TLAPS

-----------------------------------------------------------------------------
(* The array *)

\* An array written within its store, all of whose slots may be destroyed.
Fits(a) == Len(a.items) <= a.size

Sound(a) ==
    /\ \A k \in 1 .. Len(a.items) : a.items[k] \in {"live", "null"}
    /\ a.store # "freed"

\* A new array is an array, and there is nothing wrong with it (apn_array.c:32-51).
LEMMA NewArrayKeeps ==
    ASSUME NEW minsize \in Nat, NEW dtor \in BOOLEAN, NEW ctor \in BOOLEAN
    PROVE  /\ NewArray(minsize, dtor, ctor) \in Arrays
           /\ Fits(NewArray(minsize, dtor, ctor)) /\ Sound(NewArray(minsize, dtor, ctor))
<1>1. <<>> \in Seq(Slots)
  OBVIOUS
<1> QED
  BY <1>1 DEF NewArray, Arrays, Fits, Sound

\* Growing keeps the items (apn_array.c:69-86).
LEMMA GrowKeeps ==
    ASSUME NEW a \in Arrays, Fits(a)
    PROVE  /\ Grow(a) \in Arrays /\ Grow(a).items = a.items /\ Fits(Grow(a))
           /\ Grow(a).dtor = a.dtor /\ Grow(a).ctor = a.ctor
           /\ ~InsertFails(a) => Len(a.items) < Grow(a).size /\ Grow(a).store = a.store
<1>1. a.items \in Seq(Slots) /\ a.size \in Nat /\ a.store \in {"held", "freed"}
  BY DEF Arrays
<1>2. CASE ~IsFull(a)
  BY <1>1, <1>2 DEF Grow, IsFull, Fits, InsertFails
<1>3. CASE IsFull(a) /\ a.size = 0
  BY <1>1, <1>3 DEF Grow, IsFull, Fits, InsertFails, Arrays
<1>4. CASE IsFull(a) /\ a.size # 0
  <2>1. Grow(a) = [a EXCEPT !.size = 2 * a.size]
    BY <1>4 DEF Grow
  <2>2. 2 * a.size \in Nat /\ a.size < 2 * a.size /\ Len(a.items) = a.size
    BY <1>1, <1>4 DEF IsFull
  <2> QED
    BY <1>1, <2>1, <2>2 DEF Fits, InsertFails, Arrays
<1> QED
  BY <1>2, <1>3, <1>4

\* Inserting at the end keeps within the store, and spoils nothing unless there
\* is no room (apn_array.c:69-97).
LEMMA InsertKeeps ==
    ASSUME NEW a \in Arrays, Fits(a)
    PROVE  /\ Insert(a, "live") \in Arrays /\ Fits(Insert(a, "live"))
           /\ Sound(a) /\ ~InsertFails(a) => Sound(Insert(a, "live"))
<1>1. CASE InsertFails(a)
  BY <1>1, GrowKeeps DEF Insert
<1>2. CASE ~InsertFails(a)
  <2> DEFINE more == Append(a.items, "live")
  <2>1. a.items \in Seq(Slots) /\ "live" \in Slots
    BY DEF Arrays, Slots
  <2>2. /\ more \in Seq(Slots) /\ Len(more) = Len(a.items) + 1
        /\ \A k \in 1 .. Len(a.items) : more[k] = a.items[k]
        /\ more[Len(a.items) + 1] = "live"
    BY <2>1, AppendProperties
  <2>3. Insert(a, "live") = [Grow(a) EXCEPT !.items = more]
    BY <1>2 DEF Insert
  <2> HIDE DEF more
  <2>4. Insert(a, "live") \in Arrays /\ Insert(a, "live").items = more
        /\ Insert(a, "live").size = Grow(a).size /\ Insert(a, "live").store = Grow(a).store
    BY <2>2, <2>3, GrowKeeps DEF Arrays
  <2>5. Fits(Insert(a, "live"))
    BY <1>2, <2>1, <2>2, <2>4, GrowKeeps DEF Fits, Arrays
  <2>6. Sound(a) => Sound(Insert(a, "live"))
    <3> SUFFICES ASSUME Sound(a)
                 PROVE  Sound(Insert(a, "live"))
      OBVIOUS
    <3>1. ASSUME NEW k \in 1 .. Len(more)
          PROVE  more[k] \in {"live", "null"}
      <4>1. k \in 1 .. Len(a.items) \/ k = Len(a.items) + 1
        BY <2>1, <2>2
      <4> QED
        BY <2>2, <4>1 DEF Sound
    <3> QED
      BY <1>2, <2>4, <3>1, GrowKeeps DEF Sound
  <2> QED
    BY <2>4, <2>5, <2>6
<1> QED
  BY <1>1, <1>2

\* Inserting at an index keeps within the store (apn_array.c:99-119).
LEMMA InsertAtKeeps ==
    ASSUME NEW a \in Arrays, Fits(a), NEW index \in 1 .. Len(a.items)
    PROVE  InsertAt(a, index, "live") \in Arrays /\ Fits(InsertAt(a, index, "live"))
<1>1. CASE InsertFails(a)
  BY <1>1, GrowKeeps DEF InsertAt
<1>2. CASE ~InsertFails(a)
  <2> DEFINE kept == [a.items EXCEPT ![index] = "live"]
             more == Append(kept, "junk")
  <2>1. a.items \in Seq(Slots) /\ "live" \in Slots /\ "junk" \in Slots
    BY DEF Arrays, Slots
  <2>2. kept \in Seq(Slots) /\ Len(kept) = Len(a.items)
    BY <2>1
  <2>3. more \in Seq(Slots) /\ Len(more) = Len(a.items) + 1
    <3> HIDE DEF kept
    <3> QED
      BY <2>1, <2>2, AppendProperties
  <2>4. InsertAt(a, index, "live") = [Grow(a) EXCEPT !.items = more]
    BY <1>2 DEF InsertAt
  <2> HIDE DEF more
  <2>5. InsertAt(a, index, "live") \in Arrays /\ InsertAt(a, index, "live").items = more
        /\ InsertAt(a, index, "live").size = Grow(a).size
    BY <2>3, <2>4, GrowKeeps DEF Arrays
  <2> QED
    BY <1>2, <2>1, <2>3, <2>5, GrowKeeps DEF Fits, Arrays
<1> QED
  BY <1>1, <1>2

\* Removing leaves NULL, which may be destroyed as often as one likes
\* (apn_array.c:121-132).
LEMMA RemoveKeeps ==
    ASSUME NEW a \in Arrays, NEW index \in 1 .. Len(a.items)
    PROVE  /\ Remove(a, index) \in Arrays
           /\ Fits(a) => Fits(Remove(a, index))
           /\ Sound(a) => Sound(Remove(a, index))
<1>1. a.items \in Seq(Slots) /\ "null" \in Slots
  BY DEF Arrays, Slots
<1> DEFINE rest == [a.items EXCEPT ![index] = "null"]
<1>2. /\ rest \in Seq(Slots) /\ Len(rest) = Len(a.items)
      /\ \A k \in 1 .. Len(a.items) : rest[k] = IF k = index THEN "null" ELSE a.items[k]
  BY <1>1
<1>3. Remove(a, index) = [a EXCEPT !.items = rest]
  BY DEF Remove
<1> HIDE DEF rest
<1>4. Remove(a, index) \in Arrays /\ Remove(a, index).items = rest
      /\ Remove(a, index).size = a.size /\ Remove(a, index).store = a.store
  BY <1>2, <1>3 DEF Arrays
<1> QED
  BY <1>2, <1>4 DEF Fits, Sound

\* The copy is NULL or empty; the array copied keeps its length, and with a
\* constructor all the rest (apn_array.c:134-161).
LEMMA CopyKeeps ==
    ASSUME NEW a \in Arrays
    PROVE  /\ Copied(a) \in Arrays \union {NoArray}
           /\ CopySource(a) \in Arrays
           /\ Fits(a) => Fits(CopySource(a))
           /\ Sound(a) /\ CopySource(a) = a => Sound(CopySource(a))
<1>1. a.items \in Seq(Slots) /\ "dangling" \in Slots /\ a.size \in Nat
      /\ a.dtor \in BOOLEAN /\ a.ctor \in BOOLEAN
  BY DEF Arrays, Slots
<1>2. Copied(a) \in Arrays \union {NoArray}
  BY <1>1, NewArrayKeeps DEF Copied
<1>3. CASE CopySource(a) = a
  BY <1>2, <1>3
<1>4. CASE CopySource(a) # a
  <2> DEFINE rest == [a.items EXCEPT ![1] = "dangling"]
  <2>1. a.items # <<>> /\ CopySource(a) = [a EXCEPT !.items = rest]
    BY <1>4 DEF CopySource, CopyAborts
  <2>2. rest \in Seq(Slots) /\ Len(rest) = Len(a.items)
    BY <1>1, <2>1
  <2> HIDE DEF rest
  <2>3. CopySource(a) \in Arrays /\ CopySource(a).items = rest /\ CopySource(a).size = a.size
    BY <2>1, <2>2 DEF Arrays
  <2> QED
    BY <1>2, <1>4, <2>2, <2>3 DEF Fits
<1> QED
  BY <1>3, <1>4

-----------------------------------------------------------------------------
(* The payload *)

\* What is shown is what was asked for, field by field.
TextsInv ==
    \A f \in Fields :
        /\ asked[f] = "ok" /\ f \notin clobbered => text[f] = "ok"
        /\ text[f] = "ok" /\ f # "image" => asked[f] = "ok" /\ f \notin clobbered

\* The array of arguments, and the properties, of a caller who has spoiled nothing.
ArgsInv ==
    /\ Fits(args)
    /\ spoiled = {} => Sound(args) /\ ~IsWild

\* The name of the first property has been looked up.
FirstInv == props # <<>> => props[1].name \notin {"aps", "APS"}

PayloadInv ==
    /\ TypeOK /\ BlocksAccounted /\ TextsInv /\ ArgsInv /\ FirstInv
    /\ UndefinedExplained

LEMMA InitPayloadInv == Init => PayloadInv
<1> SUFFICES ASSUME Init
             PROVE  PayloadInv
  OBVIOUS
<1>1. args \in Arrays /\ Fits(args) /\ Sound(args)
  <2>1. PICK minsize \in 0 .. 1, dtor \in BOOLEAN, ctor \in BOOLEAN :
            args = NewArray(minsize, dtor, ctor)
    BY DEF Init
  <2> QED
    BY <2>1, NewArrayKeeps
<1>2. TypeOK
  BY <1>1, MaxCallsAssumption DEF Init, TypeOK, IsBadge
<1>3. BlocksAccounted
  BY DEF Init, BlocksAccounted, Fields
<1>4. TextsInv /\ FirstInv /\ UndefinedExplained /\ ~IsWild
  BY DEF Init, TextsInv, FirstInv, UndefinedExplained, IsWild
<1> QED
  BY <1>1, <1>2, <1>3, <1>4 DEF PayloadInv, ArgsInv

\* Freed takes a block from each of fields that has one; Copying adds one to f.
CountsRight(f, t, fields) ==
    /\ Freed(fields) \in [Fields \union {"args"} -> Nat]
    /\ \A g \in Fields \union {"args"} :
           Freed(fields)[g] = IF g \in fields /\ text[g] # "none"
                              THEN blocks[g] - 1 ELSE blocks[g]
    /\ Copying(f, t, fields) \in [Fields \union {"args"} -> Nat]
    /\ Copying(f, t, fields)[f] = Freed(fields)[f] + IF t = "none" THEN 0 ELSE 1
    /\ \A g \in (Fields \union {"args"}) \ {f} : Copying(f, t, fields)[g] = Freed(fields)[g]

\* Replacing f leaves one block for it, or none, and the others alone.
ReplacesRight(f, t) ==
    /\ Copying(f, t, {f}) \in [Fields \union {"args"} -> Nat]
    /\ \A g \in Fields \union {"args"} :
           Copying(f, t, {f})[g] = IF g = f THEN IF t = "none" THEN 0 ELSE 1 ELSE blocks[g]
    /\ Freed({f}) \in [Fields \union {"args"} -> Nat]
    /\ \A g \in Fields \union {"args"} : Freed({f})[g] = IF g = f THEN 0 ELSE blocks[g]

\* Freeing and copying strings count exactly (apn_payload.c:117-208).
LEMMA CopyingCounts ==
    ASSUME TypeOK, BlocksAccounted, pc = "idle",
           NEW f \in Fields, NEW t \in Texts \union {"none"}, NEW fields \in SUBSET Fields
    PROVE  CountsRight(f, t, fields)
<1>1. blocks \in [Fields \union {"args"} -> Nat] /\ "args" \notin Fields
  BY DEF TypeOK, Fields
<1>2. \A g \in fields : text[g] # "none" => blocks[g] > 0
  <2> SUFFICES ASSUME NEW g \in fields, text[g] # "none"
               PROVE  blocks[g] > 0
    OBVIOUS
  <2>1. CASE g = "image"
    BY <1>1, <2>1 DEF BlocksAccounted
  <2>2. CASE g # "image"
    BY <1>1, <2>2 DEF BlocksAccounted
  <2> QED
    BY <2>1, <2>2
<1> DEFINE freed == Freed(fields)
<1>3. /\ freed \in [Fields \union {"args"} -> Nat]
      /\ \A g \in Fields \union {"args"} :
             freed[g] = IF g \in fields /\ text[g] # "none" THEN blocks[g] - 1 ELSE blocks[g]
  BY <1>1, <1>2 DEF Freed
<1>4. Copying(f, t, fields) = [freed EXCEPT ![f] = freed[f] + IF t = "none" THEN 0 ELSE 1]
  BY DEF Copying
<1> HIDE DEF freed
<1>5. /\ Copying(f, t, fields) \in [Fields \union {"args"} -> Nat]
      /\ Copying(f, t, fields)[f] = freed[f] + IF t = "none" THEN 0 ELSE 1
      /\ \A g \in (Fields \union {"args"}) \ {f} : Copying(f, t, fields)[g] = freed[g]
  BY <1>3, <1>4
<1> QED
  BY <1>3, <1>5 DEF freed, CountsRight

\* A string that is replaced takes the place of the old one, block for block.
LEMMA ReplacingCounts ==
    ASSUME TypeOK, BlocksAccounted, pc = "idle",
           NEW f \in Fields \ {"image"}, NEW t \in Texts \union {"none"}
    PROVE  ReplacesRight(f, t)
<1> DEFINE b == Freed({f})
           c == Copying(f, t, {f})
<1>1. {f} \in SUBSET Fields /\ "args" \notin Fields
  BY DEF Fields
<1>2. IF text[f] # "none" THEN blocks[f] = 1 ELSE blocks[f] = 0
  BY DEF BlocksAccounted
<1>0. CountsRight(f, t, {f})
  BY <1>1, CopyingCounts
<1>3. /\ b \in [Fields \union {"args"} -> Nat]
      /\ \A g \in Fields \union {"args"} :
             b[g] = IF g \in {f} /\ text[g] # "none" THEN blocks[g] - 1 ELSE blocks[g]
      /\ c \in [Fields \union {"args"} -> Nat]
      /\ c[f] = b[f] + IF t = "none" THEN 0 ELSE 1
      /\ \A g \in (Fields \union {"args"}) \ {f} : c[g] = b[g]
  BY <1>0 DEF CountsRight
<1> HIDE DEF b, c
<1>4. \A g \in Fields \union {"args"} : b[g] = IF g = f THEN 0 ELSE blocks[g]
  BY <1>2, <1>3
<1>5. \A g \in Fields \union {"args"} :
          c[g] = IF g = f THEN IF t = "none" THEN 0 ELSE 1 ELSE blocks[g]
  BY <1>3, <1>4
<1> QED
  BY <1>3, <1>4, <1>5 DEF b, c, ReplacesRight

\* A step that leaves the strings and their blocks alone.
LEMMA KeepsTexts ==
    ASSUME PayloadInv, pc # "freed", pc' # "freed",
           UNCHANGED <<text, locArgs, blocks, asked, clobbered>>
    PROVE  BlocksAccounted' /\ TextsInv'
BY DEF PayloadInv, BlocksAccounted, TextsInv

\* A step that leaves the array and the properties alone.
LEMMA KeepsArgs ==
    ASSUME PayloadInv, UNCHANGED <<args, props, spoiled>>, pc' # "broken"
    PROVE  ArgsInv' /\ FirstInv' /\ UndefinedExplained'
BY DEF PayloadInv, ArgsInv, IsWild, FirstInv, UndefinedExplained

LEMMA CallsType ==
    ASSUME TypeOK, Call
    PROVE  calls' \in 0 .. MaxCalls /\ pc = "idle"
BY MaxCallsAssumption DEF TypeOK, Call

LEMMA SetStringKeeps ==
    ASSUME PayloadInv, NEW t \in {"ok", "lax", "none"}, NEW f \in {"sound", "category", "action"},
           SetString(f, t)
    PROVE  PayloadInv'
<1>1. f \in Fields /\ t \in Texts \union {"none"} /\ f # "image" /\ "args" \notin Fields
  BY DEF Fields, Texts
<1>2. /\ pc = "idle" /\ pc' = "idle" /\ ret' = "SUCCESS" /\ calls' \in 0 .. MaxCalls
      /\ text' = [text EXCEPT ![f] = t] /\ blocks' = Copying(f, t, {f})
      /\ asked' = [asked EXCEPT ![f] = t] /\ clobbered' = clobbered \ {f}
      /\ UNCHANGED <<locArgs, badge, silent, priority, props, args, given, spoiled>>
  BY CallsType DEF PayloadInv, SetString, Returns, Asked, flags
<1> DEFINE b == Copying(f, t, {f})
<1>0. /\ b \in [Fields \union {"args"} -> Nat]
      /\ \A g \in Fields \union {"args"} :
             b[g] = IF g = f THEN IF t = "none" THEN 0 ELSE 1 ELSE blocks[g]
  <2>1. ReplacesRight(f, t)
    BY <1>1, <1>2, ReplacingCounts DEF PayloadInv
  <2> QED
    BY <2>1 DEF ReplacesRight
<1> HIDE DEF b
<1>3. TypeOK'
  <2>1. blocks' \in [Fields \union {"args"} -> Nat]
    BY <1>0, <1>2 DEF b
  <2>2. /\ text' \in [Fields -> Texts \union {"none"}]
        /\ asked' \in [Fields -> Texts \union {"none"}] /\ clobbered' \in SUBSET Fields
    BY <1>1, <1>2 DEF PayloadInv, TypeOK
  <2> QED
    BY <1>2, <2>1, <2>2 DEF PayloadInv, TypeOK
<1>4. BlocksAccounted'
  <2>1. \A g \in Fields \union {"args"} :
            blocks'[g] = IF g = f THEN IF t = "none" THEN 0 ELSE 1 ELSE blocks[g]
    BY <1>0, <1>2 DEF b
  <2>2. \A g \in Fields : text'[g] = IF g = f THEN t ELSE text[g]
    BY <1>2 DEF PayloadInv, TypeOK
  <2> QED
    BY <1>1, <1>2, <2>1, <2>2 DEF PayloadInv, TypeOK, BlocksAccounted
<1>5. TextsInv'
  BY <1>1, <1>2 DEF PayloadInv, TypeOK, TextsInv
<1> QED
  BY <1>2, <1>3, <1>4, <1>5, KeepsArgs DEF PayloadInv

LEMMA SetBodyKeeps ==
    ASSUME PayloadInv, NEW t \in Texts \union {"none"}, SetBody(t)
    PROVE  PayloadInv'
<1>1. "body" \in Fields /\ "body" # "image" /\ "args" \notin Fields
  BY DEF Fields
<1> DEFINE u == IF t = "bad" THEN "none" ELSE t
<1>2. /\ pc = "idle" /\ pc' = "idle" /\ calls' \in 0 .. MaxCalls
      /\ UNCHANGED <<locArgs, badge, silent, priority, props, args, given, spoiled>>
      /\ text' = [text EXCEPT !["body"] = u]
      /\ ret' \in {"SUCCESS", "ERROR"}
  BY CallsType DEF PayloadInv, SetBody, Returns, Asked, flags
<1>3. \/ t # "bad" /\ asked' = [asked EXCEPT !["body"] = t] /\ clobbered' = clobbered \ {"body"}
         /\ blocks' = Copying("body", t, {"body"})
      \/ t = "bad" /\ asked' = asked /\ clobbered' = clobbered \union {"body"}
         /\ blocks' = Freed({"body"})
  BY DEF SetBody, Asked
<1>4. /\ blocks' \in [Fields \union {"args"} -> Nat]
      /\ \A g \in Fields \union {"args"} :
             blocks'[g] = IF g = "body" THEN IF u = "none" THEN 0 ELSE 1 ELSE blocks[g]
  <2>0. ReplacesRight("body", t)
    BY <1>1, <1>2, ReplacingCounts DEF PayloadInv
  <2>1. CASE t # "bad"
    <3> DEFINE c == Copying("body", t, {"body"})
    <3>1. /\ c \in [Fields \union {"args"} -> Nat]
          /\ \A g \in Fields \union {"args"} :
                 c[g] = IF g = "body" THEN IF t = "none" THEN 0 ELSE 1 ELSE blocks[g]
      BY <2>0 DEF ReplacesRight
    <3>2. blocks' = c /\ u = t
      BY <1>3, <2>1
    <3> HIDE DEF c, u
    <3> QED
      BY <3>1, <3>2
  <2>2. CASE t = "bad"
    <3> DEFINE c == Freed({"body"})
    <3>1. /\ c \in [Fields \union {"args"} -> Nat]
          /\ \A g \in Fields \union {"args"} : c[g] = IF g = "body" THEN 0 ELSE blocks[g]
      BY <2>0 DEF ReplacesRight
    <3>2. blocks' = c /\ u = "none"
      BY <1>3, <2>2
    <3> HIDE DEF c, u
    <3> QED
      BY <3>1, <3>2
  <2> QED
    BY <2>1, <2>2
<1>5. TypeOK'
  <2>1. u \in Texts \union {"none"}
    OBVIOUS
  <2>2. asked' \in [Fields -> Texts \union {"none"}] /\ clobbered' \in SUBSET Fields
    BY <1>1, <1>3 DEF PayloadInv, TypeOK
  <2>3. text' \in [Fields -> Texts \union {"none"}]
    BY <1>1, <1>2, <2>1 DEF PayloadInv, TypeOK
  <2> QED
    BY <1>2, <1>4, <2>2, <2>3 DEF PayloadInv, TypeOK
<1>6. \A g \in Fields : text'[g] = IF g = "body" THEN u ELSE text[g]
  BY <1>2 DEF PayloadInv, TypeOK
<1>7. BlocksAccounted'
  BY <1>1, <1>2, <1>4, <1>6 DEF PayloadInv, BlocksAccounted
<1>8. TextsInv'
  BY <1>1, <1>2, <1>3, <1>6 DEF PayloadInv, TypeOK, TextsInv
<1> QED
  BY <1>2, <1>5, <1>7, <1>8, KeepsArgs DEF PayloadInv

LEMMA SetLaunchImageKeeps ==
    ASSUME PayloadInv, NEW t \in {"ok", "lax", "none"}, SetLaunchImage(t)
    PROVE  PayloadInv'
<1>1. /\ "image" \in Fields /\ "action" \in Fields /\ t \in Texts \union {"none"}
      /\ "image" # "action" /\ "args" \notin Fields
  BY DEF Fields, Texts
<1> DEFINE u == IF t = "none" THEN text["image"] ELSE t
<1>2. /\ pc = "idle" /\ pc' = "idle" /\ ret' = "SUCCESS" /\ calls' \in 0 .. MaxCalls
      /\ UNCHANGED <<locArgs, badge, silent, priority, props, args, given, spoiled>>
      /\ text' = [text EXCEPT !["action"] = "none", !["image"] = u]
      /\ blocks' = Copying("image", t, {"action"})
      /\ asked' = [asked EXCEPT !["image"] = t]
      /\ clobbered' = (clobbered \ {"image"}) \union {"action"}
  BY <1>1, CallsType DEF PayloadInv, TypeOK, SetLaunchImage, Returns, flags
<1>3. \A g \in Fields : text'[g] = IF g = "action" THEN "none" ELSE IF g = "image" THEN u ELSE text[g]
  BY <1>1, <1>2 DEF PayloadInv, TypeOK
<1>4. /\ blocks' \in [Fields \union {"args"} -> Nat]
      /\ \A g \in Fields \union {"args"} :
             blocks'[g] = IF g = "action" THEN 0
                          ELSE IF g = "image" THEN blocks[g] + IF t = "none" THEN 0 ELSE 1
                          ELSE blocks[g]
  <2>1. {"action"} \in SUBSET Fields
    BY <1>1
  <2>2. text["action"] # "none" => blocks["action"] = 1
    BY <1>1, <1>2 DEF PayloadInv, BlocksAccounted
  <2>3. text["action"] = "none" => blocks["action"] = 0
    BY <1>1, <1>2 DEF PayloadInv, BlocksAccounted
  <2> DEFINE b == Freed({"action"})
             c == Copying("image", t, {"action"})
  <2>4. /\ b \in [Fields \union {"args"} -> Nat]
        /\ \A g \in Fields \union {"args"} :
               b[g] = IF g \in {"action"} /\ text[g] # "none" THEN blocks[g] - 1 ELSE blocks[g]
        /\ c \in [Fields \union {"args"} -> Nat]
        /\ c["image"] = b["image"] + IF t = "none" THEN 0 ELSE 1
        /\ \A g \in (Fields \union {"args"}) \ {"image"} : c[g] = b[g]
    <3>1. CountsRight("image", t, {"action"})
      BY <1>1, <1>2, <2>1, CopyingCounts DEF PayloadInv
    <3> QED
      BY <3>1 DEF CountsRight
  <2>5. blocks' = c
    BY <1>2
  <2> HIDE DEF b, c
  <2>6. \A g \in Fields \union {"args"} : b[g] = IF g = "action" THEN 0 ELSE blocks[g]
    BY <2>2, <2>3, <2>4
  <2> QED
    BY <1>1, <2>4, <2>5, <2>6
<1>5. TypeOK'
  <2>1. u \in Texts \union {"none"}
    BY <1>1 DEF PayloadInv, TypeOK
  <2> QED
    BY <1>1, <1>2, <1>4, <2>1 DEF PayloadInv, TypeOK
<1>6. BlocksAccounted'
  BY <1>1, <1>2, <1>3, <1>4 DEF PayloadInv, TypeOK, BlocksAccounted
<1>7. TextsInv'
  BY <1>1, <1>2, <1>3 DEF PayloadInv, TypeOK, TextsInv
<1> QED
  BY <1>2, <1>5, <1>6, <1>7, KeepsArgs DEF PayloadInv

\* What a caller who has spoiled nothing cannot do to the array.
LEMMA SoundIsSafe ==
    ASSUME NEW a \in Arrays, Sound(a)
    PROVE  /\ ~BadToInsert(a) /\ ~BadToCopy(a) /\ ~BadToFree(a)
           /\ \A index \in 1 .. Len(a.items) : ~BadToDestroy(a, a.items[index])
<1>1. a.items \in Seq(Slots)
  BY DEF Arrays
<1>2. a.items # <<>> => 1 \in 1 .. Len(a.items)
  BY <1>1
<1> QED
  BY <1>1, <1>2 DEF Sound, BadToInsert, BadToCopy, BadToFree, BadToDestroy, CopyAborts

LEMMA SetLocalizedKeyKeeps ==
    ASSUME PayloadInv, NEW t \in {"ok", "lax", "none"}, SetLocalizedKey(t)
    PROVE  PayloadInv'
<1>1. "key" \in Fields /\ "key" # "image" /\ "args" \notin Fields /\ t \in Texts \union {"none"}
  BY DEF Fields, Texts
<1>2. /\ pc = "idle" /\ calls' \in 0 .. MaxCalls /\ UNCHANGED <<badge, silent, priority, props>>
  BY CallsType DEF PayloadInv, SetLocalizedKey, flags
<1>3. CASE pc' \in {"aborted", "broken"} /\ UNCHANGED <<alert, args, blocks, history, ret>>
  <2>1. /\ pc' \in {"aborted", "broken"}
        /\ text' = text /\ locArgs' = locArgs /\ args' = args /\ blocks' = blocks
        /\ asked' = asked /\ given' = given /\ clobbered' = clobbered
        /\ spoiled' = spoiled /\ ret' = ret
    BY <1>3 DEF alert, history
  <2>2. TypeOK'
    BY <1>2, <2>1 DEF PayloadInv, TypeOK
  <2>3. ArgsInv' /\ FirstInv'
    BY <1>2, <2>1 DEF PayloadInv, ArgsInv, IsWild, FirstInv
  <2>4. UndefinedExplained'
    <3> SUFFICES ASSUME pc' = "broken"
                 PROVE  spoiled # {}
      BY <2>1 DEF UndefinedExplained
    <3>1. args # NoArray /\ BadToCopy(args)
      BY DEF SetLocalizedKey, Returns
    <3> QED
      BY <3>1, SoundIsSafe DEF PayloadInv, TypeOK, ArgsInv
  <2> QED
    BY <1>2, <2>1, <2>2, <2>3, <2>4, KeepsTexts DEF PayloadInv
<1>4. CASE t # "none" /\ args # NoArray /\ ~BadToCopy(args)
  <2>1. /\ pc' = "idle" /\ ret' = "SUCCESS" /\ text' = [text EXCEPT !["key"] = t]
        /\ locArgs' = Copied(args) /\ args' = CopySource(args)
        /\ blocks' = [Copying("key", t, {"key"}) EXCEPT
                         !["args"] = (@ - IF locArgs = NoArray THEN 0 ELSE 1)
                                        + IF locArgs' = NoArray THEN 0 ELSE 1]
        /\ asked' = [asked EXCEPT !["key"] = t] /\ clobbered' = clobbered \ {"key"}
        /\ given' = Len(args.items)
        /\ spoiled' = IF args' = args THEN spoiled ELSE spoiled \union {"copy"}
    BY <1>4 DEF SetLocalizedKey, Returns, Asked
  <2>2. /\ args \in Arrays /\ locArgs' \in Arrays \union {NoArray} /\ args' \in Arrays
        /\ Fits(args') /\ (spoiled' = {} => Sound(args')) /\ given' \in Nat
    <3>1. args \in Arrays /\ Fits(args) /\ (spoiled = {} => Sound(args))
      BY <1>4 DEF PayloadInv, TypeOK, ArgsInv
    <3>2. args.items \in Seq(Slots)
      BY <3>1 DEF Arrays
    <3>3. spoiled' = {} => spoiled = {} /\ CopySource(args) = args
      BY <2>1
    <3>4. Copied(args) \in Arrays \union {NoArray} /\ CopySource(args) \in Arrays
          /\ Fits(CopySource(args))
      BY <3>1, CopyKeeps
    <3>5. spoiled' = {} => Sound(CopySource(args))
      BY <3>1, <3>3
    <3>6. Len(args.items) \in Nat
      BY <3>2
    <3>7. Fits(args') /\ (spoiled' = {} => Sound(args'))
      BY <2>1, <3>4, <3>5
    <3> QED
      BY <2>1, <3>1, <3>4, <3>6, <3>7
  <2>3. \A g \in Fields : text'[g] = IF g = "key" THEN t ELSE text[g]
    BY <1>1, <2>1 DEF PayloadInv, TypeOK
  <2>4. /\ blocks' \in [Fields \union {"args"} -> Nat]
        /\ blocks'["args"] = IF locArgs' = NoArray THEN 0 ELSE 1
        /\ \A g \in Fields : blocks'[g] = IF g = "key" THEN 1 ELSE blocks[g]
    <3> DEFINE b == Copying("key", t, {"key"})
    <3>4. blocks["args"] = IF locArgs = NoArray THEN 0 ELSE 1
      BY <1>2 DEF PayloadInv, BlocksAccounted
    <3>5. /\ b \in [Fields \union {"args"} -> Nat] /\ b["args"] = blocks["args"]
          /\ \A g \in Fields : b[g] = IF g = "key" THEN 1 ELSE blocks[g]
      <4>1. ReplacesRight("key", t)
        BY <1>1, <1>2, ReplacingCounts DEF PayloadInv
      <4> QED
        BY <1>1, <1>4, <4>1 DEF ReplacesRight
    <3>6. blocks' = [b EXCEPT !["args"] = (b["args"] - IF locArgs = NoArray THEN 0 ELSE 1)
                                             + IF locArgs' = NoArray THEN 0 ELSE 1]
      BY <2>1
    <3> HIDE DEF b
    <3>7. blocks' = [b EXCEPT !["args"] = IF locArgs' = NoArray THEN 0 ELSE 1]
      BY <3>4, <3>5, <3>6
    <3> QED
      BY <1>1, <3>5, <3>7
  <2>5. spoiled' \in SUBSET Causes
    BY <2>1 DEF PayloadInv, TypeOK, Causes
  <2>6. TypeOK'
    BY <1>1, <1>2, <2>1, <2>2, <2>4, <2>5 DEF PayloadInv, TypeOK
  <2>7. BlocksAccounted'
    BY <1>1, <1>2, <1>4, <2>1, <2>3, <2>4 DEF PayloadInv, BlocksAccounted
  <2>8. TextsInv'
    BY <1>1, <2>1, <2>3 DEF PayloadInv, TypeOK, TextsInv
  <2>9. ArgsInv' /\ FirstInv' /\ UndefinedExplained'
    BY <1>2, <2>1, <2>2 DEF PayloadInv, ArgsInv, IsWild, FirstInv, UndefinedExplained
  <2> QED
    BY <2>6, <2>7, <2>8, <2>9 DEF PayloadInv
<1> QED
  BY <1>3, <1>4 DEF SetLocalizedKey

\* The setters of numbers touch neither a string nor an array (apn_payload.c:94-134).
LEMMA NumbersKeep ==
    ASSUME PayloadInv,
           \/ \E b \in {-1, 0, 65535, 65536} : SetBadge(b)
           \/ \E flag \in 0 .. 2 : SetContentAvailable(flag)
           \/ \E p \in {5, 7, 10} : SetPriority(p)
           \/ CreateDocument
    PROVE  PayloadInv'
<1>1. pc = "idle" /\ calls' \in 0 .. MaxCalls
  BY CallsType DEF PayloadInv, SetBadge, SetContentAvailable, SetPriority, CreateDocument
<1>2. /\ text' = text /\ locArgs' = locArgs /\ args' = args /\ blocks' = blocks /\ props' = props
      /\ asked' = asked /\ given' = given /\ clobbered' = clobbered /\ spoiled' = spoiled
  BY DEF SetBadge, SetContentAvailable, SetPriority, CreateDocument, alert, history, flags
<1>3. /\ IsBadge(badge') /\ silent' \in {0, 1} /\ priority' \in {5, 10}
      /\ pc' \in {"idle", "broken"} /\ ret' \in {"SUCCESS", "ERROR"}
      /\ pc' = "broken" => IsWild
  BY DEF PayloadInv, TypeOK, SetBadge, SetContentAvailable, SetPriority, CreateDocument, flags,
         Returns, IsBadge
<1>4. TypeOK'
  BY <1>1, <1>2, <1>3 DEF PayloadInv, TypeOK
<1>5. ArgsInv' /\ FirstInv' /\ UndefinedExplained'
  BY <1>2, <1>3 DEF PayloadInv, ArgsInv, IsWild, FirstInv, UndefinedExplained
<1> QED
  BY <1>1, <1>2, <1>3, <1>4, <1>5, KeepsTexts DEF PayloadInv

\* Only the first property's name has been looked up (apn_payload.c:210-331, 519-534).
LEMMA AddCustomPropertyKeeps ==
    ASSUME PayloadInv, NEW name \in Names, NEW type \in Types, NEW value \in Values,
           AddCustomProperty(name, type, value)
    PROVE  PayloadInv'
<1>1. pc = "idle" /\ calls' \in 0 .. MaxCalls
  BY CallsType DEF PayloadInv, AddCustomProperty
<1>2. /\ text' = text /\ locArgs' = locArgs /\ args' = args /\ blocks' = blocks
      /\ badge' = badge /\ silent' = silent /\ priority' = priority
      /\ asked' = asked /\ given' = given /\ clobbered' = clobbered
  BY DEF AddCustomProperty, alert, flags
<1>3. CASE props' = props /\ spoiled' = spoiled /\ Returns("ERROR")
  <2>1. pc' = "idle" /\ ret' = "ERROR"
    BY <1>3 DEF Returns
  <2>2. TypeOK'
    BY <1>1, <1>2, <1>3, <2>1 DEF PayloadInv, TypeOK
  <2> QED
    BY <1>1, <1>2, <1>3, <2>1, <2>2, KeepsTexts, KeepsArgs DEF PayloadInv
<1>4. CASE name # "bad" /\ ~NameIsUsed(name)
           /\ props' = Append(props, [name |-> name, type |-> type, value |-> value])
  <2> DEFINE p == [name |-> name, type |-> type, value |-> value]
  <2>1. props \in Seq(Property) /\ p \in Property
    BY DEF PayloadInv, TypeOK, Property
  <2>2. /\ props' \in Seq(Property) /\ Len(props') = Len(props) + 1
        /\ \A k \in 1 .. Len(props) : props'[k] = props[k]
        /\ props'[Len(props) + 1] = p
    <3> HIDE DEF p
    <3>1. props' = Append(props, p)
      BY <1>4 DEF p
    <3> QED
      BY <2>1, <3>1, AppendProperties
  <2>3. \/ name = "bad" \/ NameIsUsed(name)
        \/ /\ spoiled' = IF type \in {"array", "wild"}
                         THEN spoiled \union {"array_property"} ELSE spoiled
           /\ ret' = "SUCCESS" /\ pc' \in IF type = "array" THEN {"idle", "broken"} ELSE {"idle"}
    BY DEF AddCustomProperty
  <2>4. TypeOK'
    BY <1>1, <1>2, <1>4, <2>2, <2>3 DEF PayloadInv, TypeOK, Causes
  <2>5. FirstInv'
    <3>1. CASE props = <<>>
      <4>1. name \notin {"aps", "APS"} /\ props'[1] = p
        BY <1>4, <2>2, <3>1 DEF NameIsUsed
      <4> QED
        BY <4>1 DEF FirstInv
    <3>2. CASE props # <<>>
      <4>1. 1 \in 1 .. Len(props)
        BY <2>1, <3>2
      <4> QED
        BY <2>2, <3>2, <4>1 DEF PayloadInv, FirstInv
    <3> QED
      BY <3>1, <3>2
  <2>6. ArgsInv'
    <3>1. Fits(args') /\ (spoiled' = {} => Sound(args'))
      BY <1>2, <1>4, <2>3 DEF PayloadInv, ArgsInv
    <3>2. spoiled' = {} => ~IsWild'
      <4> SUFFICES ASSUME spoiled' = {}, NEW k \in 1 .. Len(props'), props'[k].type = "wild"
                   PROVE  FALSE
        BY DEF IsWild
      <4>1. spoiled = {} /\ type \notin {"array", "wild"}
        BY <1>4, <2>3
      <4>2. k \in 1 .. Len(props) \/ k = Len(props) + 1
        BY <2>1, <2>2
      <4>3. CASE k = Len(props) + 1
        BY <2>2, <4>1, <4>3
      <4>4. CASE k \in 1 .. Len(props)
        <5>1. props[k].type = "wild"
          BY <2>2, <4>4
        <5> QED
          BY <4>1, <4>4, <5>1 DEF PayloadInv, ArgsInv, IsWild
      <4> QED
        BY <4>2, <4>3, <4>4
    <3> QED
      BY <3>1, <3>2 DEF ArgsInv
  <2>7. UndefinedExplained'
    BY <1>4, <2>3 DEF UndefinedExplained
  <2>8. pc' # "freed"
    BY <1>4, <2>3
  <2> QED
    BY <1>1, <1>2, <2>4, <2>5, <2>6, <2>7, <2>8, KeepsTexts DEF PayloadInv
<1> QED
  BY <1>3, <1>4 DEF AddCustomProperty

\* The array stays within its store, and sound unless spoiled (apn_array.c:53-132).
LEMMA ArgumentsKeep == PayloadInv /\ Arguments => PayloadInv'
<1> SUFFICES ASSUME PayloadInv, Arguments
             PROVE  PayloadInv'
  OBVIOUS
<1>1. pc = "idle" /\ calls' \in 0 .. MaxCalls
  BY CallsType DEF PayloadInv, Arguments, InsertArg, FreeArgs, InsertArgAt, RemoveArg
<1>2. /\ text' = text /\ locArgs' = locArgs /\ blocks' = blocks /\ props' = props
      /\ badge' = badge /\ silent' = silent /\ priority' = priority
      /\ asked' = asked /\ given' = given /\ clobbered' = clobbered
  BY DEF Arguments, InsertArg, FreeArgs, InsertArgAt, RemoveArg, ArgsOnly, alert, flags
<1>3. /\ args \in Arrays \union {NoArray} /\ Fits(args) /\ (spoiled = {} => Sound(args))
      /\ spoiled \in SUBSET Causes /\ ret \in {"SUCCESS", "ERROR"}
      /\ NoArray.items = <<>>
  BY DEF PayloadInv, TypeOK, ArgsInv, NoArray
\* What is left to show of an action.
<1>4. ASSUME pc' \in {"idle", "broken"}, args' \in Arrays \union {NoArray}, Fits(args'),
             spoiled \subseteq spoiled', spoiled' \in SUBSET Causes, ret' \in {"SUCCESS", "ERROR"},
             spoiled' = {} => Sound(args') /\ pc' # "broken"
      PROVE  PayloadInv'
  <2>1. TypeOK'
    BY <1>1, <1>2, <1>4 DEF PayloadInv, TypeOK
  <2>2. ArgsInv' /\ FirstInv' /\ UndefinedExplained'
    <3>1. spoiled' = {} => spoiled = {}
      BY <1>4
    <3> QED
      BY <1>2, <1>4, <3>1 DEF PayloadInv, ArgsInv, IsWild, FirstInv, UndefinedExplained
  <2> QED
    BY <1>1, <1>2, <1>4, <2>1, <2>2, KeepsTexts DEF PayloadInv
<1>5. CASE InsertArg
  <2>1. args \in Arrays
    BY <1>3, <1>5 DEF InsertArg
  <2>2. CASE BadToInsert(args) /\ pc' = "broken" /\ UNCHANGED <<args, spoiled, ret>>
    <3>1. spoiled # {}
      BY <1>3, <2>1, <2>2, SoundIsSafe
    <3> QED
      BY <1>3, <1>4, <2>2, <3>1
  <2>3. CASE ~BadToInsert(args)
    <3>1. /\ args' = Insert(args, "live") /\ pc' = "idle" /\ ret' \in {"SUCCESS", "ERROR"}
          /\ spoiled' = IF InsertFails(args) THEN spoiled \union {"no_room"} ELSE spoiled
      BY <1>5, <2>3 DEF InsertArg, Returns
    <3>2. Insert(args, "live") \in Arrays /\ Fits(Insert(args, "live"))
          /\ (Sound(args) /\ ~InsertFails(args) => Sound(Insert(args, "live")))
      BY <1>3, <2>1, InsertKeeps
    <3>3. spoiled' = {} => spoiled = {} /\ ~InsertFails(args)
      BY <3>1
    <3>4. spoiled \subseteq spoiled' /\ spoiled' \in SUBSET Causes
      BY <1>3, <3>1 DEF Causes
    <3>5. args' \in Arrays /\ Fits(args') /\ (spoiled' = {} => Sound(args'))
      BY <1>3, <3>1, <3>2, <3>3
    <3> QED
      BY <1>4, <3>1, <3>4, <3>5
  <2> QED
    BY <1>5, <2>2, <2>3 DEF InsertArg
<1>6. ASSUME NEW index \in 1 .. Len(args.items), InsertArgAt(index)
      PROVE  PayloadInv'
  <2>1. args \in Arrays
    BY <1>3, <1>6
  <2>2. CASE BadToDestroy(args, args.items[index]) /\ pc' = "broken" /\ UNCHANGED <<args, spoiled, ret>>
    <3>1. spoiled # {}
      BY <1>3, <1>6, <2>1, <2>2, SoundIsSafe
    <3> QED
      BY <1>3, <1>4, <2>2, <3>1
  <2>3. CASE ~BadToDestroy(args, args.items[index])
    <3>1. /\ args' = InsertAt(args, index, "live") /\ pc' = "idle" /\ ret' = "SUCCESS"
          /\ spoiled' = spoiled \union {"insert_at_index"}
      BY <1>6, <2>3 DEF InsertArgAt, Returns
    <3>2. InsertAt(args, index, "live") \in Arrays /\ Fits(InsertAt(args, index, "live"))
      BY <1>3, <1>6, <2>1, InsertAtKeeps
    <3>3. spoiled \subseteq spoiled' /\ spoiled' \in SUBSET Causes /\ spoiled' # {}
      BY <1>3, <3>1 DEF Causes
    <3>4. args' \in Arrays /\ Fits(args')
      BY <3>1, <3>2
    <3> QED
      BY <1>4, <3>1, <3>3, <3>4
  <2> QED
    BY <1>6, <2>2, <2>3 DEF InsertArgAt
<1>7. ASSUME NEW index \in 1 .. Len(args.items), RemoveArg(index)
      PROVE  PayloadInv'
  <2>1. args \in Arrays /\ spoiled' = spoiled
    BY <1>3, <1>7 DEF RemoveArg
  <2>2. CASE BadToDestroy(args, args.items[index]) /\ pc' = "broken" /\ UNCHANGED <<args, ret>>
    <3>1. spoiled # {}
      BY <1>3, <1>7, <2>1, <2>2, SoundIsSafe
    <3> QED
      BY <1>3, <1>4, <2>1, <2>2, <3>1
  <2>3. CASE ~BadToDestroy(args, args.items[index])
    <3>1. args' = Remove(args, index) /\ pc' = "idle" /\ ret' = "SUCCESS"
      BY <1>7, <2>3 DEF RemoveArg, Returns
    <3>2. /\ Remove(args, index) \in Arrays /\ Fits(Remove(args, index))
          /\ Sound(args) => Sound(Remove(args, index))
      BY <1>3, <1>7, <2>1, RemoveKeeps
    <3>3. args' \in Arrays /\ Fits(args') /\ (spoiled' = {} => Sound(args'))
      BY <1>3, <2>1, <3>1, <3>2
    <3> QED
      BY <1>3, <1>4, <2>1, <3>1, <3>3
  <2> QED
    BY <1>7, <2>2, <2>3 DEF RemoveArg
<1>8. CASE FreeArgs
  <2>1. args \in Arrays /\ spoiled' = spoiled
    BY <1>3, <1>8 DEF FreeArgs
  <2>2. CASE BadToFree(args) /\ pc' = "broken" /\ UNCHANGED <<args, ret>>
    <3>1. spoiled # {}
      BY <1>3, <2>1, <2>2, SoundIsSafe
    <3> QED
      BY <1>3, <1>4, <2>1, <2>2, <3>1
  <2>3. CASE ~BadToFree(args) /\ args' = NoArray /\ Returns("SUCCESS")
    <3>1. Fits(NoArray) /\ Sound(NoArray)
      BY DEF Fits, Sound, NoArray
    <3>2. pc' = "idle" /\ ret' = "SUCCESS"
      BY <2>3 DEF Returns
    <3>3. args' \in Arrays \union {NoArray} /\ Fits(args') /\ Sound(args')
      BY <2>3, <3>1
    <3> QED
      BY <1>3, <1>4, <2>1, <3>2, <3>3
  <2> QED
    BY <1>8, <2>2, <2>3 DEF FreeArgs
<1> QED
  BY <1>5, <1>6, <1>7, <1>8 DEF Arguments

\* Everything but a lost image is freed with the payload (apn_payload.c:77-92).
LEMMA FreeKeeps == PayloadInv /\ Free => PayloadInv'
<1> SUFFICES ASSUME PayloadInv, Free
             PROVE  PayloadInv'
  OBVIOUS
<1>1. /\ pc = "idle" /\ calls' = calls /\ ret' = ret
      /\ text' = text /\ locArgs' = locArgs /\ args' = args /\ props' = props
      /\ badge' = badge /\ silent' = silent /\ priority' = priority
      /\ asked' = asked /\ given' = given /\ clobbered' = clobbered /\ spoiled' = spoiled
  BY DEF Free, alert, history, flags
<1>2. TextsInv' /\ ArgsInv' /\ FirstInv'
  BY <1>1 DEF PayloadInv, TextsInv, ArgsInv, IsWild, FirstInv
<1>3. CASE IsWild /\ pc' = "broken" /\ blocks' = blocks
  <2>1. TypeOK'
    BY <1>1, <1>3 DEF PayloadInv, TypeOK
  <2>2. BlocksAccounted'
    BY <1>1, <1>3 DEF PayloadInv, BlocksAccounted
  <2>3. UndefinedExplained'
    BY <1>1, <1>3 DEF PayloadInv, ArgsInv, UndefinedExplained
  <2> QED
    BY <1>2, <2>1, <2>2, <2>3 DEF PayloadInv
<1>4. CASE pc' = "freed"
  <2> DEFINE b == Freed(Fields)
  <2>1. /\ b \in [Fields \union {"args"} -> Nat] /\ b["args"] = blocks["args"]
        /\ \A g \in Fields : b[g] = IF text[g] # "none" THEN blocks[g] - 1 ELSE blocks[g]
    <3>1. CountsRight("body", "none", Fields)
      BY <1>1, CopyingCounts DEF PayloadInv, Fields
    <3>2. "args" \notin Fields
      BY DEF Fields
    <3> QED
      BY <3>1, <3>2 DEF CountsRight
  <2>2. blocks' = [b EXCEPT !["args"] = b["args"] - IF locArgs = NoArray THEN 0 ELSE 1]
    BY <1>4 DEF Free
  <2> HIDE DEF b
  <2>3. blocks["args"] = IF locArgs = NoArray THEN 0 ELSE 1
    BY <1>1 DEF PayloadInv, BlocksAccounted
  <2>4. blocks' = [b EXCEPT !["args"] = 0]
    BY <2>1, <2>2, <2>3
  <2>5. /\ blocks' \in [Fields \union {"args"} -> Nat] /\ blocks'["args"] = 0
        /\ \A g \in Fields : blocks'[g] = b[g]
    <3>1. "args" \notin Fields
      BY DEF Fields
    <3> QED
      BY <2>1, <2>4, <3>1
  <2>6. TypeOK'
    BY <1>1, <1>4, <2>5 DEF PayloadInv, TypeOK
  <2>7. \A g \in Fields \ {"image"} : blocks'[g] = 0
    <3> SUFFICES ASSUME NEW g \in Fields \ {"image"}
                 PROVE  blocks'[g] = 0
      OBVIOUS
    <3>1. blocks[g] = IF text[g] # "none" THEN 1 ELSE 0
      BY <1>1 DEF PayloadInv, BlocksAccounted
    <3> QED
      BY <2>1, <2>5, <3>1
  <2>8. blocks'["image"] >= 0
    BY <2>5 DEF Fields
  <2>9. BlocksAccounted'
    BY <1>4, <2>5, <2>7, <2>8 DEF BlocksAccounted
  <2> QED
    BY <1>2, <1>4, <2>6, <2>9 DEF PayloadInv, UndefinedExplained
<1> QED
  BY <1>3, <1>4 DEF Free

-----------------------------------------------------------------------------
\* Whatever calls are made in whatever order, the strings have their blocks, the
\* document its fields, the array its store (apn_payload.c, apn_array.c).
THEOREM PayloadInvariant == Spec => []PayloadInv
<1>1. PayloadInv /\ [Next]_vars => PayloadInv'
  <2> SUFFICES ASSUME PayloadInv, [Next]_vars
               PROVE  PayloadInv'
    OBVIOUS
  <2>1. CASE UNCHANGED vars \/ Terminated
    <3>1. /\ pc' = pc /\ calls' = calls /\ ret' = ret
          /\ text' = text /\ locArgs' = locArgs /\ args' = args /\ props' = props
          /\ blocks' = blocks
          /\ badge' = badge /\ silent' = silent /\ priority' = priority
          /\ asked' = asked /\ given' = given /\ clobbered' = clobbered /\ spoiled' = spoiled
      BY <2>1 DEF Terminated, vars, alert, flags, history
    <3>2. TypeOK'
      BY <3>1 DEF PayloadInv, TypeOK
    <3>3. BlocksAccounted' /\ TextsInv' /\ ArgsInv' /\ FirstInv' /\ UndefinedExplained'
      BY <3>1 DEF PayloadInv, BlocksAccounted, TextsInv, ArgsInv, IsWild, FirstInv,
                  UndefinedExplained
    <3> QED
      BY <3>2, <3>3 DEF PayloadInv
  <2>2. CASE Setters
    <3>1. CASE \E t \in {"ok", "lax", "none"} :
                   \/ \E f \in {"sound", "category", "action"} : SetString(f, t)
                   \/ SetLaunchImage(t) \/ SetLocalizedKey(t)
      BY <3>1, SetStringKeeps, SetLaunchImageKeeps, SetLocalizedKeyKeeps
    <3>2. CASE \E t \in Texts \union {"none"} : SetBody(t)
      BY <3>2, SetBodyKeeps
    <3>3. CASE \E name \in Names :
                   \/ \E type \in Types : AddCustomProperty(name, type, "ok")
                   \/ AddCustomProperty(name, "string", "lax")
      <4>1. "ok" \in Values /\ "lax" \in Values /\ "string" \in Types
        BY DEF Values, Types
      <4> QED
        BY <3>3, <4>1, AddCustomPropertyKeeps
    <3> QED
      BY <2>2, <3>1, <3>2, <3>3, NumbersKeep DEF Setters
  <2> QED
    BY <2>1, <2>2, ArgumentsKeep, NumbersKeep, FreeKeeps DEF Next
<1> QED
  BY <1>1, InitPayloadInv, PTL DEF Spec

\* The variables keep their types: no block is freed that is not there.
THEOREM PayloadTypes == Spec => []TypeOK
<1>1. PayloadInv => TypeOK
  BY DEF PayloadInv
<1> QED
  BY <1>1, PayloadInvariant, PTL

\* However setters are mixed, every string has one block, and apn_payload_free
\* leaves none but those of launch images that were replaced (apn_payload.c:77-208).
THEOREM BlocksAccountedHolds == Spec => []BlocksAccounted
<1>1. PayloadInv => BlocksAccounted
  BY DEF PayloadInv
<1> QED
  BY <1>1, PayloadInvariant, PTL

\* The document shows what was asked for and not wiped out, as long as no second
\* property has replaced its dictionary (apn_payload.c:407-498).
THEOREM DocumentTellsHolds == Spec => []DocumentTells
<1>1. PayloadInv => DocumentTells
  <2> SUFFICES ASSUME PayloadInv, Len(props) > 1 => ~ApsReplaced, NEW f \in Fields
               PROVE  /\ asked[f] = "ok" /\ f \notin clobbered => f \in Shown
                      /\ f \in Shown /\ f # "image" => asked[f] = "ok" /\ f \notin clobbered
    BY DEF DocumentTells
  <2>0. ~ApsReplaced
    <3> SUFFICES ASSUME ApsReplaced, Len(props) <= 1 PROVE FALSE
      BY DEF PayloadInv, TypeOK
    <3>1. PICK k \in 1 .. Len(props) : props[k].name = "aps"
      BY DEF ApsReplaced
    <3>2. k = 1 /\ props # <<>>
      BY <3>1 DEF PayloadInv, TypeOK
    <3> QED
      BY <3>1, <3>2 DEF PayloadInv, FirstInv
  <2>1. f \in Shown => text[f] = "ok"
    BY DEF Shown
  <2>2. text[f] = "ok" => f \in Shown
    <3> SUFFICES ASSUME text[f] = "ok"
                 PROVE  f \in Shown
      OBVIOUS
    <3>1. PlainAlert => f \in {"body", "sound", "category"}
      BY DEF PlainAlert, Fields
    <3>2. f \in {"body", "image", "action", "key", "sound", "category"}
      BY DEF Fields
    <3> QED
      BY <2>0, <3>1, <3>2 DEF Shown
  <2> QED
    BY <2>1, <2>2 DEF PayloadInv, TextsInv
<1> QED
  BY <1>1, PayloadInvariant, PTL

\* Nothing undefined happens to a caller who keeps off the four calls that spoil
\* memory (apn_array.c:53-161; apn_payload.c:182-194, 299-331).
THEOREM UndefinedExplainedHolds == Spec => []UndefinedExplained
<1>1. PayloadInv => UndefinedExplained
  BY DEF PayloadInv
<1> QED
  BY <1>1, PayloadInvariant, PTL

\* Such a caller's array has only slots that may be destroyed, and its store.
THEOREM MemoryInvHolds == Spec => []MemoryInv
<1>1. PayloadInv => MemoryInv
  BY DEF PayloadInv, ArgsInv, Sound, MemoryInv
<1> QED
  BY <1>1, PayloadInvariant, PTL

\* No call writes beyond the store of the array (apn_array.c:69-117).
THEOREM ArgsFitHolds == Spec => []ArgsFit
<1>1. PayloadInv => ArgsFit
  BY DEF PayloadInv, ArgsInv, Fits, ArgsFit
<1> QED
  BY <1>1, PayloadInvariant, PTL
=============================================================================

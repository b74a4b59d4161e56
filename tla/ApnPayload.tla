------------------------------ MODULE ApnPayload ------------------------------
(***************************************************************************)
(* An apn_payload_t under any sequence of calls by one caller, who also    *)
(* keeps an apn_array_t of arguments for the localized key: the setters,   *)
(* the custom properties, the JSON document made of them and the memory    *)
(* they own.  A text is one of three kinds: proper UTF-8, text that        *)
(* apn_string_is_utf8 takes for it and the JSON library does not, and text *)
(* that is refused.                                                        *)
(***************************************************************************)
EXTENDS ApnArray, Integers

CONSTANT MaxCalls   \* bound on the number of calls

ASSUME MaxCallsAssumption == MaxCalls \in Nat

Texts  == {"ok", "lax", "bad"}
Fields == {"body", "action", "image", "key", "sound", "category"}
Names  == {"aps", "APS", "name", "bad"}

\* What fits in a uint16_t.
Badges == 0 .. 65535

\* -1 until the first is set.
IsBadge(b) == b \in Badges \/ b = -1

VARIABLES
    pc,         \* "idle", "freed", "aborted" by an assertion, or "broken": something
                \* undefined has happened
    text,       \* the strings of the payload and its alert, "none" for NULL
    locArgs,    \* alert->loc_args
    badge, silent, priority,
    props,      \* custom_properties
    args,       \* the caller's array
    blocks,     \* history: blocks allocated for each field, and for locArgs
    asked,      \* history: what the last successful call asked for each field
    given,      \* history: number of arguments that came with the localized key
    clobbered,  \* history: fields emptied by a call about another, or one that failed
    spoiled,    \* history: calls made that leave memory in disorder
    ret, calls

alert    == <<text, locArgs>>
flags    == <<badge, silent, priority>>
history  == <<asked, given, clobbered, spoiled>>
vars     == <<pc, alert, flags, props, args, blocks, history, ret, calls>>

Types == {"scalar", "string", "array", "wild"}
Values == {"ok", "lax"}
Property == [name : Names, type : Types, value : Values]

Causes == {"no_room", "insert_at_index", "copy", "array_property"}

TypeOK ==
    /\ pc \in {"idle", "freed", "aborted", "broken"}
    /\ text \in [Fields -> Texts \union {"none"}]
    /\ locArgs \in Arrays \union {NoArray}
    /\ IsBadge(badge) /\ silent \in {0, 1} /\ priority \in {5, 10}
    /\ props \in Seq(Property)
    /\ args \in Arrays \union {NoArray}
    /\ blocks \in [Fields \union {"args"} -> Nat]
    /\ asked \in [Fields -> Texts \union {"none"}]
    /\ given \in Nat
    /\ clobbered \in SUBSET Fields /\ spoiled \in SUBSET Causes
    /\ ret \in {"SUCCESS", "ERROR"} /\ calls \in 0 .. MaxCalls

\* apn_payload_init, and an array the caller has made.
Init ==
    /\ pc = "idle"
    /\ text = [f \in Fields |-> "none"] /\ locArgs = NoArray
    /\ badge = -1 /\ silent = 0 /\ priority = 5
    /\ props = <<>>
    /\ \E minsize \in 0 .. 1, dtor, ctor \in BOOLEAN : args = NewArray(minsize, dtor, ctor)
    /\ blocks = [f \in Fields \union {"args"} |-> 0]
    /\ asked = text /\ given = 0 /\ clobbered = {} /\ spoiled = {}
    /\ ret = "SUCCESS" /\ calls = 0

Call == pc = "idle" /\ calls < MaxCalls /\ calls' = calls + 1

Returns(value) == pc' = "idle" /\ ret' = value

-----------------------------------------------------------------------------
(* The setters of strings *)

\* Mutants: the old strings are not freed; they are, without a look whether
\* there is one.
FreedKeeping(fields) == blocks
FreedBlindly(fields) ==
    [f \in DOMAIN blocks |-> IF f \in fields THEN blocks[f] - 1 ELSE blocks[f]]

\* Blocks after the strings fields held are freed.
Freed(fields) ==
    [f \in DOMAIN blocks |->
        IF f \in fields /\ text[f] # "none" THEN blocks[f] - 1 ELSE blocks[f]]

\* Blocks after fields are freed and t is copied to f.
Copying(f, t, fields) == [Freed(fields) EXCEPT ![f] = @ + IF t = "none" THEN 0 ELSE 1]

Asked(f, t) == asked' = [asked EXCEPT ![f] = t] /\ clobbered' = clobbered \ {f}

\* apn_payload_set_sound, _set_category and _set_localized_action_key
SetString(f, t) ==
    /\ Call
    /\ text' = [text EXCEPT ![f] = t]
    /\ blocks' = Copying(f, t, {f})
    /\ Asked(f, t)
    /\ Returns("SUCCESS")
    /\ UNCHANGED <<locArgs, flags, props, args, given, spoiled>>

\* The old body is gone whether or not the new one is accepted.
SetBody(t) ==
    /\ Call
    /\ \/ /\ t # "bad"
          /\ text' = [text EXCEPT !["body"] = t]
          /\ blocks' = Copying("body", t, {"body"})
          /\ Asked("body", t)
          /\ Returns("SUCCESS")
       \/ /\ t = "bad"
          /\ text' = [text EXCEPT !["body"] = "none"]
          /\ blocks' = Freed({"body"})
          /\ clobbered' = clobbered \union {"body"}
          /\ asked' = asked
          /\ Returns("ERROR")
    /\ UNCHANGED <<locArgs, flags, props, args, given, spoiled>>

\* It is the action key that is freed; an image there was stays, or is lost.
SetLaunchImage(t) ==
    /\ Call
    /\ text' = [text EXCEPT !["action"] = "none", !["image"] = IF t = "none" THEN @ ELSE t]
    /\ blocks' = Copying("image", t, {"action"})
    /\ asked' = [asked EXCEPT !["image"] = t]
    /\ clobbered' = (clobbered \ {"image"}) \union {"action"}
    /\ Returns("SUCCESS")
    /\ UNCHANGED <<locArgs, flags, props, args, given, spoiled>>

\* Key and arguments.  A missing key, and missing arguments, fail an assertion.
SetLocalizedKey(t) ==
    /\ Call
    /\ \/ /\ t = "none" \/ args = NoArray
          /\ pc' = "aborted"
          /\ UNCHANGED <<alert, args, blocks, history, ret>>
       \/ /\ t # "none" /\ args # NoArray /\ BadToCopy(args)
          /\ pc' = "broken"
          /\ UNCHANGED <<alert, args, blocks, history, ret>>
       \/ /\ t # "none" /\ args # NoArray /\ ~BadToCopy(args)
          /\ text' = [text EXCEPT !["key"] = t]
          /\ locArgs' = Copied(args)
          /\ args' = CopySource(args)
          /\ blocks' = [Copying("key", t, {"key"}) EXCEPT
                           !["args"] = (@ - IF locArgs = NoArray THEN 0 ELSE 1)
                                          + IF locArgs' = NoArray THEN 0 ELSE 1]
          /\ Asked("key", t) /\ given' = Len(args.items)
          /\ spoiled' = IF args' = args THEN spoiled ELSE spoiled \union {"copy"}
          /\ Returns("SUCCESS")
    /\ UNCHANGED <<flags, props>>

-----------------------------------------------------------------------------
(* The other setters *)

SetBadge(b) ==
    /\ Call
    /\ \/ b \in Badges /\ badge' = b /\ Returns("SUCCESS")
       \/ b \notin Badges /\ badge' = badge /\ Returns("ERROR")
    /\ UNCHANGED <<alert, silent, priority, props, args, blocks, history>>

SetContentAvailable(flag) ==
    /\ Call
    /\ silent' = IF flag = 1 THEN 1 ELSE 0
    /\ Returns("SUCCESS")
    /\ UNCHANGED <<alert, badge, priority, props, args, blocks, history>>

SetPriority(p) ==
    /\ Call
    /\ priority' = IF p = 10 THEN 10 ELSE 5
    /\ Returns("SUCCESS")
    /\ UNCHANGED <<alert, badge, silent, props, args, blocks, history>>

\* Once there is a property every name is free.
NameIsUsed(name) == props = <<>> /\ name \in {"aps", "APS"}

\* Two outcomes of an array property: the strings copied are those of an array
\* nobody has filled, so that it breaks, or holds what happened to be there; and
\* one without elements keeps a pointer and a size nobody has assigned.
AddCustomProperty(name, type, value) ==
    /\ Call
    /\ \/ /\ name = "bad" \/ NameIsUsed(name)
          /\ props' = props /\ spoiled' = spoiled
          /\ Returns("ERROR")
       \/ /\ name # "bad" /\ ~NameIsUsed(name)
          /\ props' = Append(props, [name |-> name, type |-> type, value |-> value])
          /\ spoiled' = IF type \in {"array", "wild"}
                        THEN spoiled \union {"array_property"} ELSE spoiled
          /\ ret' = "SUCCESS"
          /\ pc' \in IF type = "array" THEN {"idle", "broken"} ELSE {"idle"}
    /\ UNCHANGED <<alert, flags, args, blocks, asked, given, clobbered>>

-----------------------------------------------------------------------------
(* The caller's array *)

ArgsOnly == UNCHANGED <<alert, flags, props, blocks, asked, given, clobbered>>

InsertArg ==
    /\ Call /\ args # NoArray
    /\ \/ BadToInsert(args) /\ pc' = "broken" /\ UNCHANGED <<args, spoiled, ret>>
       \/ /\ ~BadToInsert(args)
          /\ args' = Insert(args, "live")
          /\ spoiled' = IF InsertFails(args) THEN spoiled \union {"no_room"} ELSE spoiled
          /\ Returns(IF InsertFails(args) THEN "ERROR" ELSE "SUCCESS")
    /\ ArgsOnly

InsertArgAt(index) ==
    /\ Call
    /\ \/ /\ BadToDestroy(args, args.items[index])
          /\ pc' = "broken" /\ UNCHANGED <<args, spoiled, ret>>
       \/ /\ ~BadToDestroy(args, args.items[index])
          /\ args' = InsertAt(args, index, "live")
          /\ spoiled' = spoiled \union {"insert_at_index"}
          /\ Returns("SUCCESS")
    /\ ArgsOnly

RemoveArg(index) ==
    /\ Call
    /\ \/ /\ BadToDestroy(args, args.items[index])
          /\ pc' = "broken" /\ UNCHANGED <<args, ret>>
       \/ /\ ~BadToDestroy(args, args.items[index])
          /\ args' = Remove(args, index)
          /\ Returns("SUCCESS")
    /\ spoiled' = spoiled
    /\ ArgsOnly

FreeArgs ==
    /\ Call /\ args # NoArray
    /\ \/ BadToFree(args) /\ pc' = "broken" /\ UNCHANGED <<args, ret>>
       \/ ~BadToFree(args) /\ args' = NoArray /\ Returns("SUCCESS")
    /\ spoiled' = spoiled
    /\ ArgsOnly

-----------------------------------------------------------------------------
(* The document *)

\* Mutant: an image does not ask for a dictionary.
PlainWithImage == text["action"] = "none" /\ locArgs = NoArray /\ text["key"] = "none"

\* The alert is the body itself, not a dictionary.
PlainAlert ==
    /\ text["action"] = "none" /\ text["image"] = "none"
    /\ locArgs = NoArray /\ text["key"] = "none"

\* The property makes an entry in the document; the array of an array property
\* has never been created.
MakesEntry(p) ==
    \/ p.type = "scalar"
    \/ p.type = "string" /\ p.value = "ok"

\* The aps dictionary is replaced by a property.
ApsReplaced == \E k \in 1 .. Len(props) : props[k].name = "aps" /\ MakesEntry(props[k])

\* The strings of the aps dictionary.  The JSON library makes no value of a text
\* that is not UTF-8, and setting a key to no value is an error nobody looks at.
Shown ==
    LET alertFields == IF PlainAlert THEN {"body"} ELSE {"body", "image", "action", "key"}
    IN  {f \in alertFields \union {"sound", "category"} : ~ApsReplaced /\ text[f] = "ok"}

DocumentMade == text["key"] # "none" \/ text["body"] # "none" \/ silent = 1

IsWild == \E k \in 1 .. Len(props) : props[k].type = "wild"

\* apn_create_json_document_from_payload
CreateDocument ==
    /\ Call
    /\ \/ DocumentMade /\ IsWild /\ pc' = "broken" /\ ret' = ret
       \/ DocumentMade /\ Returns("SUCCESS")
       \/ ~DocumentMade /\ Returns("ERROR")
    /\ UNCHANGED <<alert, flags, props, args, blocks, history>>

\* apn_payload_free
Free ==
    /\ pc = "idle"
    /\ \/ IsWild /\ pc' = "broken" /\ blocks' = blocks
       \/ /\ pc' = "freed"
          /\ blocks' = [Freed(Fields) EXCEPT !["args"] = @ - IF locArgs = NoArray THEN 0 ELSE 1]
    /\ UNCHANGED <<alert, flags, props, args, history, ret, calls>>

-----------------------------------------------------------------------------
Setters ==
    \/ \E t \in {"ok", "lax", "none"} :
           \/ \E f \in {"sound", "category", "action"} : SetString(f, t)
           \/ SetLaunchImage(t) \/ SetLocalizedKey(t)
    \/ \E t \in Texts \union {"none"} : SetBody(t)
    \/ \E b \in {-1, 0, 65535, 65536} : SetBadge(b)
    \/ \E flag \in 0 .. 2 : SetContentAvailable(flag)
    \/ \E p \in {5, 7, 10} : SetPriority(p)
    \/ \E name \in Names :
           \/ \E type \in Types : AddCustomProperty(name, type, "ok")
           \/ AddCustomProperty(name, "string", "lax")

Arguments ==
    \/ InsertArg \/ FreeArgs
    \/ \E index \in 1 .. Len(args.items) : InsertArgAt(index) \/ RemoveArg(index)

Terminated ==
    /\ pc # "idle" \/ calls = MaxCalls
    /\ UNCHANGED vars

Next == Setters \/ Arguments \/ CreateDocument \/ Free \/ Terminated

Spec == Init /\ [][Next]_vars

-----------------------------------------------------------------------------
(* Properties *)

\* One block for every string the payload points to and none beside, whichever
\* setters were called in whichever order, and none when it has been freed; but
\* an image that is replaced is never freed (apn_payload.c:77-92, 117-208).
BlocksAccounted ==
    /\ \A f \in Fields :
           LET held == IF pc # "freed" /\ text[f] # "none" THEN 1 ELSE 0
           IN  IF f = "image" THEN blocks[f] >= held ELSE blocks[f] = held
    /\ blocks["args"] = IF pc # "freed" /\ locArgs # NoArray THEN 1 ELSE 0

\* The document shows what was asked for, no more and no less, whether the alert
\* becomes a text or a dictionary, and whatever one custom property is added
\* (apn_payload.c:407-498).  Four cases are excepted: behind another property one
\* named "aps" is accepted, and takes the place of the whole dictionary (468-498,
\* 522); an action key is wiped out by apn_payload_set_launch_image (170), and a
\* body by the refusal of the next (142); an image stays when it is taken back
\* (172); a text the JSON library refuses is left out.
DocumentTells ==
    pc = "idle" /\ DocumentMade /\ (Len(props) > 1 => ~ApsReplaced) =>
        \A f \in Fields :
            /\ asked[f] = "ok" /\ f \notin clobbered => f \in Shown
            /\ f \in Shown /\ f # "image" => asked[f] = "ok" /\ f \notin clobbered

\* Nothing undefined happens to a caller who makes no array without room, does
\* not insert at an index, does not copy arguments he has to free, and adds no
\* array property (apn_array.c:53-161; apn_payload.c:182-194, 299-331).
UndefinedExplained == pc = "broken" => spoiled # {}

\* An array is never written beyond its store (apn_array.c:69-117).
ArgsFit == Len(args.items) <= args.size

\* What UndefinedExplained rests on.
MemoryInv ==
    spoiled = {} =>
        /\ \A k \in 1 .. Len(args.items) : args.items[k] \in {"live", "null"}
        /\ args.store # "freed"
        /\ ~IsWild

(* A statement of the repository that the code does not keep *)

\* apn_payload.h:209: args is the "Array of string values to appear in place of
\* the format specifiers in `key`".
ArgumentsKept == text["key"] # "none" => Len(locArgs.items) = given
=============================================================================

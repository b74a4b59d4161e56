# A verification development for apn-pusher

apn-pusher sends push notifications to Apple devices. It has a C library
(libcapn), a command (`apn-pusher`) built on it, and a Python 2 driver
(`pypusher`) that runs the command over a table of device tokens. This
directory holds TLA+ models of them, the TLC runs that check the models, and
TLAPS proofs of the most important results.

Paths below are relative to the repository's `src/` unless they are obvious;
`apn.c:359` means line 359 of `src/library/apn.c`.

## 1. Inventory

| part | state it keeps | operations | what is hard | what makes it correct |
|---|---|---|---|---|
| **apn_send** (`apn.c:291-388`, `671-768`) | `start_index`, `auto_reconnect`, `invalid_token_index`, error code, `errno`, list of invalid tokens; one shared message | stream frames, read error packets, close and reconnect, resume | the gateway answers late and only once, about a frame written long ago; the connection breaks in several ways; one list is sent over several connections | every token is decided once and in order; the invalid tokens are the refused ones; the call ends |
| **context and connection** (`apn.c:121-288`, `390-462`, `558-646`) | `sock`, `ssl`, `feedback`, `mode`, `options`, certificate names | setters, connect, feedback connect, close, send, feedback, free | calls in any order; an attempt that fails half way; settings changed on an open connection | no leak; the right server, with a certificate for it; no notification to the feedback service |
| **TLS layer** (`apn_ssl.c`) | SSL objects, SIGPIPE disposition | connect, read, write, close, certificate checks | an error path of its own behind every step of an attempt; reference counts; non-blocking socket | nothing used after it is freed, nothing left behind; the errno the callers decide by; certificate fits mode |
| **binary message** (`apn_binary_message.c`) | one buffer with id and token fields, and the places of both | create, set id, set token | places computed beside the layout; reuse for all tokens | the gateway reads what was stored |
| **payload** (`apn_payload.c`) | alert, badge, custom properties | setters, JSON document | ownership; setters that touch another field; the check of a name; a failed setter | the document shows what was set; one block per string |
| **array** (`apn_array.c`) | growable array of pointers, destructor, constructor | insert, insert at an index, remove, copy, free | growth from any size; who owns an item; `insert_at_index` and `copy` do other than they say | never beyond its store; nothing undefined unless it is misused in a known way |
| **strings, tokens** (`apn_strings.c`, `apn_tokens.c`) | none | UTF-8 check, copies, split, hexadecimal | the size of the buffer and the terminator, the end of the text | reference definitions |
| **apn-pusher** (`src/pusher/pusher.c`) | options, token array | read token file, send, print invalid tokens | error paths with status 0 | what it prints is what happened |
| **pypusher** (`src/pypusher/`) | part files, index file, token table | prepare, run apn-pusher, trim, mark | kill and restart between any two steps; exit status ignored | nobody forgotten, refused tokens marked, resends bounded |
| logging, error texts, build files, example, SQL, vendored OpenSSL | none that another part reads | - | - | - |

pypusher starts apn-pusher as a process and reads its standard error;
apn-pusher makes an array of tokens and a payload and calls the library;
`apn_send` makes one message of the payload and calls `apn_close`,
`apn_connect` and the TLS layer; the gateway and the TCP connection are the
environment. The library has no threads: concurrency is between `apn_send` and
the gateway and network, and between pypusher and whoever kills it.

## 2. Modules

| module | models | checked by | proofs |
|---|---|---|---|
| `ApnErrors` | status bytes of the error packet, errno values, the conversions and the reconnect list | with `ApnSend` | |
| `Gateway` | the environment of one `apn_send`: TCP stream, gateway, faults (external) | with `ApnSend` | |
| `ApnSend` | one call of `apn_send`, from its first attempt to its return | `MCApnSend` | `ApnSendProofs`, `ApnSendExactProofs` |
| `ApnSendProps` | the claims about it, its two refinement mappings, and the inductive invariants | `MCApnSend` | `ApnSendProofs`, `ApnSendExactProofs` |
| `Broadcast` | the abstract promise of `apn_send` to its caller | implemented by `ApnSend` | `ApnSendProofs`, `ApnSendExactProofs` |
| `ApnConnection` | the life of an `apn_ctx_t` under any sequence of API calls | `MCApnConnection`; implemented by `ApnSend` and `ApnSsl` | `ApnConnectionProofs` |
| `ApnSsl` | one connection attempt of `__apn_connect` and `apn_ssl_connect`, step by step | `MCApnSsl` | `ApnSslProofs` |
| `ApnArray` | `apn_array_t` as a value, with operators for its functions | with `ApnPayload` | `ApnPayloadProofs` |
| `ApnPayload` | an `apn_payload_t`, and an array of arguments its caller keeps | itself | `ApnPayloadProofs` |
| `ApnStrings` | string and token functions, as operators | `MCData` | `DataProofs` |
| `ApnMessage` | the bytes of the message all tokens of one call share | `MCData` | `ApnMessageProofs` |
| `Campaign` | one campaign of pypusher with its runs of apn-pusher, kills and restarts | `MCCampaign` | `CampaignProofs` |

The modules compose in three places. `ApnConnection` has a connection attempt
as one action and `apn_send` as a few steps; `ApnSsl!ImplementsConnection` shows
that the attempt with all its outcomes is that action, and
`ApnSendProps!KeepsToConnection` that each step of an `apn_send` in full is one of
those few steps or leaves the connection alone. `Broadcast` is what a caller may
rely on, and `ApnSend` implements it.

Definitions labelled *Mutant* are plausible bugs of the operator that follows
them. Nothing uses them; each property has one that breaks it.

### ApnSend and Gateway

`select()`, `SSL_read` and `SSL_write` are separate steps (`Select`/
`FinalSelect`, `Read`, `Write`/`WriteFails`), so the gateway and the network
act between them. A whole notification is one frame `[id, dev]`: the id that
`apn_binary_message_set_id` stored and the device whose token bytes are in the
shared message. `SetToken` keeps the old bytes when the token is malformed,
because `apn.c:719` ignores the result of `apn_binary_message_set_token_hex`.
`HandleFailure` is all of `apn.c:333-380`: conversion of the error, the report
of an invalid token, `start_index`, and then another attempt (`GoOn`) or the
end (`GiveUp`). `Close` and `ReconnectOk`/`ReconnectFails` are `apn_close` and
`apn_connect` as `apn_send` calls them.

`link` is what the next system call on the connection would find: `up`, `fin`
(orderly close), `reset`, `pipe` (reset after a close), `timedout`, and
`closed` once the client has closed it. A reconnection may fail in three ways,
which leave three things behind (`Leftovers`): nothing when no address answers,
a socket without SSL (`bare`) when the certificate is refused, a socket with an
SSL object whose handshake has failed (`halfway`). `Gateway` handles frames in
order, answers the first refused one with a single packet that has a status and
the frame's id, drops what follows, and closes. `bounced` has the ids it has
named with a status that calls the token invalid, 8 or 5. This is what `apn.c`
relies on; no source of the gateway exists here.

Abstractions: `SSL_ERROR_WANT_*` loops and `EINTR` are retried inside one
step; a frame is written whole; an error packet arrives whole and has command
byte 8; allocation does not fail; `select()` on a peer that neither reads nor
closes is a wait of the model, not the busy loop it is in the code.

### ApnConnection

One action per API call, with the outcomes of `__apn_connect` and
`apn_ssl_connect` as disjuncts of `Open`: not configured, socket already open,
nothing reachable (the socket is closed again), certificate refused (socket
left open without SSL), handshake failed (SSL object left), established.
`conn.sock` is the server the socket is connected to, `conn.cert` the
certificate in the SSL object. `apn_send` spans several steps: `Send` passes
the check, `FinishHandshake` lets reads and writes finish a handshake,
`SendCloses` and `SendReconnects` are its reconnection, `SendReturns` its
return. `options` is unset by `apn_init`, so `Init` leaves it open. `sockets`
and `objects` count what was opened and allocated; `soiled` remembers that
something happened to the connection since it was opened.

### ApnSsl

One action per system or OpenSSL call that may fail, in the order of the code;
its error path is the disjunct `GivesUp`, which names what that path frees.
`refs` counts the references to each kind of object (`X509`, `EVP_PKEY`,
`SSL_CTX`, `SSL`, `PKCS12`, the open file, the copy of the passphrase, the nodes
of the address list), `holds` what the SSL_CTX has taken references to and
gives up with its own last one (`CtxFreed`). `using` is the certificate of the
attempt: `CertModes` stands for its extensions and its time. Settings do not
change during an attempt, as the code is sequential. A PKCS#12 file without certificate or key is taken for one
that cannot be parsed.

### ApnPayload and ApnArray

A text is one of three kinds: `ok`, `lax` (accepted by `apn_string_is_utf8`, not
by the JSON library) and `bad`. `text` has the string fields of payload and
alert, `blocks` counts the blocks allocated for each of them less those freed, so
that a leak and a double free both show. `asked` and `clobbered` remember what the
caller asked for, and which fields were emptied by a call about something else.
`SetString` is the three setters that share one shape; the other setters are
actions of their own. `AddCustomProperty` is the six `apn_payload_add_custom_property_*`:
`scalar` is integer, double, bool and null; `array` is an array property with
elements, `wild` one without, whose pointer is never assigned. `NameIsUsed` keeps the
early return at `apn_payload.c:522`, behind which the comparison with the
existing names is never reached. `Shown`, `MakesEntry` and `ApsReplaced` say what
the JSON document has: a property named `aps` that makes an entry takes the place
of the dictionary, and none of its texts is shown. The text of the document is
left out.

`args` is an array as a caller makes it for the localized key, with any
combination of destructor and constructor and a capacity of 0 or 1. A slot of
`ApnArray` says what following its pointer would find; undefined behaviour is the
state `broken`, reached where the code would follow a pointer that is junk or
dangling, or free a store twice. `spoiled` remembers the calls that make this
possible.

### ApnStrings and ApnMessage

Strings are sequences of bytes. `Strncpy`, `Substr` and `Strcat` give the string
left in the buffer and the number of bytes written, so that writing beyond the
buffer shows. `Lines` is the reading of a token file, `Words` the splitting by
`strtok`; both tell the n-th by the rank of the place where it ends or begins
(`Nth`), which is a cardinality. `ApnMessage` has the bytes of the message: `Frame` lays out the five
items as the code does, `TokenPosition` and `IdPosition` are the two places the
code computes beside, `Store` writes there. `Parsed` is the gateway's reading, from
header to header through five items, and says where it ends. `ApnSend` abstracts such a message to `[id, dev]`;
`FrameTells` is what justifies that. `SetTokenHex` is given whole strings: that
`apn_tokens.c:44-45` reads beyond the end of a token shorter than 64 characters
is left out.

### Campaign

The steps of `pusher.py`, `file.py` and `token.py`, split wherever a kill makes
a difference: creating and writing the index, truncating and writing a part
file, marking one row. A run of apn-pusher handles the lines of the
file in order (`Deliver`, `Refuse`) and is otherwise what `ApnSend` makes of it,
`MaxFailures` times at most: `Lose` is a connection that is closed, or a packet
that comes after the last `select()`, so that lines in flight are passed over
(`lost`); `Rewind` a failed write or a status that names no place, so that the
list is sent again from its first line; `PusherFails` an `apn_send` or
`apn_connect` that answers an error, after which the invalid tokens met so far
are printed all the same; `PusherKilled` a SIGPIPE, after which nothing is
printed. In the first two the gateway may have refused the line at hand and its
verdict been missed (`MaybeRefused`); `unheard` has the refused tokens whose last
verdict has not reached the driver. Left out are a false report after status 5
(`ApnSendTokenSize`), tokens that are not hexadecimal, and a run that never
ends (`ApnSendStuck`).

`ReadAhead` is Python 2's refusal to mix iteration and `read()`. CPython reads
ahead 8192 bytes, which is 126 lines of 65 bytes and two bytes: its buffer never
ends with a line, so that `read()` only works when the last line of the file was
found. The model reads ahead `Buffer` lines; with `Buffer` beyond every file it is
CPython, and with smaller ones the run reaches what lies behind the exception: 1
is a runtime that does not read ahead. A kill
takes the driver and its child together, as a signal to the process group does.
`Restart` is the operator running the same command again, after a kill or an
exception; only disk and table survive.

## 3. Runs

Twelve runs. Bounds are constants of the cfg files; no cfg replaces a
definition.

| run | asks | bounds | result |
|---|---|---|---|
| `ApnSendCalm` | exactness: `NothingSkipped`, `SuccessMeansDecided`, `ImplementsExact` | 5 tokens, each registered or unknown; 2 frames in flight; a reconnection may fail; verdicts come before the last `select()` gives up | holds |
| `ApnSendClose` | what is left when the gateway closes at will and answers late: `AtMostOnce`, `ReportedInOrder`, `LossBounded`, `ImplementsAtBest` | 6 tokens, 2 frames in flight, 2 faults | holds |
| `ApnSendFaults` | every fault, every way a reconnection may fail, malformed tokens, codes 1, 7 and 10: `TypeOK`, `IndicesInRange`, `NoFalseAccusation`, `DuplicatesExplained`, `EndsUnlessReset`, `KeepsToConnection` | 3 tokens, 2 faults | holds |
| `ConnCalls` | all calls in any order: `NeverSendsToFeedback`, `NothingLeaks`, `CertificateFitsServer`, `ConnectedAsAsked` | four certificates (production, sandbox, both, expired); no bound on calls | holds |
| `Ssl` | an attempt that fails anywhere: `UsesAlive`, `ObjectsAccounted`, `ImplementsConnection` | three certificates (production, sandbox, expired); lists of 1 and 2 addresses, 3 of them lost in all; no bound on attempts | holds |
| `Payload` | any calls: `TypeOK`, `BlocksAccounted`, `DocumentTells`, `UndefinedExplained`, `ArgsFit` | 4 calls | holds |
| `Data` | `FrameTells` of the message; `Utf8Judged`, `CopiesFit`, `PiecesFit`, `PartsJoined`, `ListsAgree`, `TokensRoundTrip` of the strings | tokens of 2 bytes, documents of up to 5 with a limit of 4; every string of up to 5 bytes over 7 | holds |
| `Campaign` | `TypeOK`, `NobodyForgotten`, `OnlyAnsweredLeave`, `ResentTailOnly`, `MarkedAreRefused`, `Ends` | two part files of 4 and 1 tokens; 1 restart; 2 failures of a connection or a run of apn-pusher; 2 lines read ahead | holds |
| `ApnSendStuck` | `Termination` without `APN_OPTION_RECONNECT` | 3 tokens, no fault | violated |
| `ApnSendTokenSize` | `OnlyRefusedReported` when the gateway answers code 5 | 3 tokens | violated |
| `PayloadArgs` | `ArgumentsKept` | 3 calls | violated |
| `CampaignTrim` | `remove_file_lines` does not fail | 4 lines read ahead | violated |

Why the bounds are enough. The interesting cases of `apn_send` need a refused
token, one written behind it, one before it, and a second attempt that fails
too: three tokens and two failures hold them all, and five tokens with two
frames in flight let the list fill the buffers and empty them again. `WireCap`
of 2 makes the socket unwritable while a packet is on its way. In `ApnSendClose`
two closed connections may cost four tokens and a late packet two more: with six
tokens `LossBounded` can fail after each fault, and TLC finds its bound reached.
Every action of `ApnConnection` is finite, so its run has no bound but the set of
certificates; these are the four the code tells apart. In `Ssl` only the addresses lost need a
bound; two of a list can be lost in one attempt, and three in several. In
`Payload` four calls are a setter, the one that disturbs it, a third that repairs
or repeats it, and the document or `apn_payload_free`; on the array they are two
inserts, which double it, the misuse, and the free that meets it. The proofs have
no bound on calls. In `Data` the bytes are a newline, two hexadecimal digits, and
one byte for each class the UTF-8 check tells apart, among them 251, the last it
takes for a continuation; five bytes hold a character of every length and its
neighbour, and a buffer one byte too short, exact, and one byte too long. The
documents hold the bytes an item header is made of, and one that is too long. In
`Campaign`, four lines and two read ahead give rounds that go on, rounds that end
in the exception, and files that become empty. Four lines are also what the
bounds of `ResentTailOnly` need to be reached: a device is notified a third
time in one session when a refused line before it starts another round and an
unknown one behind it, missed at first, a third. One restart allows a kill
anywhere and what follows it; two failures a list sent again and a verdict missed,
in one run or two. The proofs have no bound on either.

### Fairness

`ApnSend!Fairness` is weak fairness of the calling thread and of the gateway's
handling of frames. The first is what a scheduler gives a process, since every
wait of the code is a `select()` that returns when the gateway acts. The second
says the gateway reads what it was sent; a peer that stops reading without
closing keeps the call waiting for ever, and no property claims otherwise.
Faults are never fair: they need not happen. `EndsUnlessReset` assumes that they
stop: a gateway that answers status 7, 1 or 10 on every connection sends the
call back to token 0 for ever (`apn.c:327`, `359`), and so does a connection that
breaks each time. `Campaign!FairSpec` is weak fairness of the driver and the
apn-pusher it waits for; that a run of apn-pusher ends is what `EndsUnlessReset`
shows for the calls it makes, under its assumptions, and is assumed by `Ends` for
the others. Kills, restarts and failures are not fair.

### What the violated runs show

* `ApnSendStuck`: without `APN_OPTION_RECONNECT` an attempt that fails with
  tokens left falls out of the `if` at `apn.c:362` into the next turn of
  `for(;;)`, on a connection that is closed. The call does not return, although
  `apn.h:371-373` documents an error. A reset connection does the same with the
  option set, since `SSL_READ_FAILED` is not in the list at `apn.c:363-368`.
* `ApnSendTokenSize`: the packet's id is parsed for code 8 only (`apn.c:659`),
  but code 5 is also converted to `APN_ERR_TOKEN_INVALID`; when a frame further
  on is refused with it, token 0 of the list is reported, though the packet names
  another and the gateway has accepted token 0.
* `PayloadArgs`: `apn_array_copy` tests `!apn_array_insert(...)`, which is true
  when it succeeds (`apn_array.c:154`). The arguments of a localized key are
  dropped, and for an array with a destructor and no constructor its first item is
  freed under the caller.
* `CampaignTrim`: `file.py:24` raises `ValueError` in Python 2 unless the last
  invalid token ends the lines read ahead, so the tokens are never marked.

Further divergences the models show, without a run of their own:

* A malformed token sends the message with the token before it, and is counted
  as sent (`apn.c:719`, `pusher.c:333`); `SetToken` has it, and
  `DuplicatesExplained` names it as a reason for a second notification.
* A failed handshake or an unusable certificate leaves the socket in the context,
  and the next `apn_connect` answers SUCCESS (`apn.c:574`).
  `ConnectedAsAsked` excepts such a connection by `soiled`.
* The check at `apn.c:408` refuses exactly the connections
  `apn_feedback_connect` opens, so that `apn_feedback` always fails on them; and
  the flag it looks at is only cleared by `apn_init`, so that after a feedback
  connection `apn_send` answers `NOT_CONNECTED` on any (`apn.c:397`).
* `apn_send` also reconnects after a timeout or an unreachable network, which
  `apn.h:45-47` excludes; it does not after a reset.
* `apn_set_pkcs12_file` asserts a passphrase that `apn.h:290` says can be NULL.
* The list of addresses is freed from the address the loop has come to
  (`apn.c:631`), and not at all without a socket (`apn.c:595`): what is in front
  of it is lost. `ObjectsAccounted` excepts the addresses.
* A custom property whose name is in use, and `aps` itself, is accepted once
  there is a property (`apn_payload.c:522`), although `apn.h:107` has an error for
  it; an `aps` accepted so takes the place of the whole dictionary
  (`apn_payload.c:468-498`), and the notification has no text. `DocumentTells`
  excepts it.
* A gateway that answers status 7, 1 or 10 to a frame on every connection keeps
  `apn_send` going for ever, the same payload being sent again from token 0
  (`apn.c:327`, `359`); `EndsUnlessReset` assumes it does not.
* `apn_send` answers success with tokens in flight lost (`apn.c:747-768`), and the
  campaign takes their part for done; `NobodyForgotten` excepts them (`lost`).
* An array property copies its strings out of the array it has just allocated
  (`apn_payload.c:322`), and never reaches the document, because the JSON array
  is never created (`apn_payload.c:393`, `492`).
* `apn_payload_set_launch_image` frees the action key and loses the old image
  (`apn_payload.c:170`); `apn_array_insert_at_index` replaces the item and
  counts a slot nobody has written (`apn_array.c:114-115`).
* `apn_string_is_utf8` accepts bytes up to 0xFB as continuations
  (`apn_strings.c:90`), overlong forms and surrogates; the JSON library then
  drops the text without an error.

## 4. Proofs

The proof modules hold for every value of the constants the named assumptions
allow: any number of tokens, any `WireCap`, any set of certificates, any number of
addresses, any number of calls.

`ApnSendProofs`:

* `TypeCorrect`: `TypeOK` and `IndexInv`, for every environment. `IndexInv`
  says the locals of an attempt are fresh until it fails and that `errno` alone
  never says `TOKEN_INVALID`; without it `IndicesSafe` is not inductive, since
  `invalid_index` may be the token count after a failed final read.
* `IndicesSafe`: the assertion at `apn.c:707` and the array access at
  `apn.c:336`.
* `BlameInvariant` and `NoFalseAccusationHolds`: for every environment that never
  answers `INVALID_TOKEN_SIZE`. `BlameInv` says a frame with the id of a proper
  token carries that token, so a packet with code 8 cannot name a registered
  device. It includes the shared message, because the frame is built from it.
* `CloseInvariant`, `AtMostOnceHolds`, `ReportedInOrderHolds`,
  `ImplementsBroadcast`: under `Gentle`, that is when connections are only
  closed or cannot be opened, the gateway gives no other code than 8, and no
  token is malformed. `CloseInv` has two halves. While the gateway listens,
  `StreamInv` says the frames in flight are the tokens just before `i` and
  nothing from the first of them on is decided. Once it has stopped,
  `ResumeInv` says nothing is decided from the place where the code *will*
  resume: the place is `start_index`, the loop index, the successor of the id in
  the packet, or what a failed attempt makes of these. The four conjuncts are
  needed because the place moves through four variables before it is used.
  Outside `Gentle` the results are false: other errors do send tokens twice.
* `KeepsToConnectionHolds`: for every environment. The call returns with the
  connection it was given, the last one it has opened, or what a failed
  `apn_connect` leaves, which may be a socket, or a socket and an SSL object.
  `LinkInv` says the link is `closed` only while a reconnection is due or after a
  call that failed, `bare` or `halfway` only after one, that a reconnection only
  comes with `APN_OPTION_RECONNECT`, and that no attempt on an open connection
  ends with the errno of a failed reconnection.

`ApnSendExactProofs`:

* `ExactInvariant`, `NothingSkippedHolds`, `SuccessMeansDecidedHolds` and
  `ImplementsBroadcastExactly`: under `Calm`, that is without malformed tokens and
  without faults but a reconnection that fails, no code but 8, verdicts in time
  (`Prompt`), and with `APN_OPTION_RECONNECT`. A late verdict loses the tokens
  behind the refused one, and without the option the dead connection is used
  again. `CloseInv` says nothing *behind* the place where the code resumes is
  decided; `ExactInv` adds the other half, that everything *before* it is
  (`ProgressInv`). It needs that a connection that is dead has its packet still to
  be read (`PacketInv`), and that a refused token is handed over or in one of the
  two variables on the way to it (`NamedInv`).
* `OrderlyInvariant` and `DuplicatesExplainedHolds`: for every environment. A
  second notification takes a malformed token or an attempt that has gone back
  over written tokens. `OrderlyInv` is `StreamInv` without the assumption on
  faults: as long as neither has happened, the frames in flight are the tokens
  just before the loop index, and nothing is decided from that index on, whatever
  broke. A failed attempt that goes on with `invalid_index` at 0 resumes at the
  start of the list, which is going back unless nothing was written.
* `LossInvariant` and `LossBoundedHolds`: under `Renewing`, that is with
  `APN_OPTION_RECONNECT` and only codes that a reconnection follows (8, 5 and 10),
  but with any fault, malformed tokens and late verdicts. With a code like 1
  (`PROCESSING_ERROR`), or without the option, the call goes back to token 0 on the
  same connection and writes the list to a gateway that no longer reads, so that
  no bound holds. The run `ApnSendClose` is the part of this in which connections
  are only closed; the theorem has the rest. `LossBounded` counts the tokens before
  `start_index` nobody has decided, and nothing in it says where they went. `LostInv` does: while the gateway listens, the tokens missed before the
  place of any frame are in a frame further in front, but for those lost to
  earlier faults (`ListenInv`); when the connection breaks, at most `WireCap` in
  flight join these, for one fault more; from then on the bound is about the place
  where the code will resume (`LossInv`), which moves from the loop index or the
  packet to `start_index`. `DeafInv` says nothing is written once the packet that
  tells of the refusal has been read, which is where `Renewing` is needed.

`CampaignProofs`, for any tables, any number of restarts and failures, and any
read-ahead:

* `ShapeInvariant`, `TypeCorrect`, `MarkedAreRefusedHolds`. `ShapeInv` says a
  part file always holds an end of its table, that the last token named is an
  unregistered line of the file, and that only refused tokens are named and
  marked. It does not say that the lines behind that one have been accepted: a
  connection that breaks may have lost them, and a list sent again is back before
  it. What is refused and not `unheard` is named, marked, or on its way to be.
* `ResentInvariant` and `ResentTailOnlyHolds`. `ResentInv` bounds how often each
  token has been sent, by what is left of the session: the bound rises by one per
  session, by one more for a token behind a refused one, and by one for each
  failure. A line still to be sent has not been sent in this session, or it has
  been once, and the first line that is not registered is then behind it, so that
  this is the last time (`Ready`). A failure leaves every line one notification to
  spare (`Spare`), which a step back to the first line or a missed verdict uses up:
  behind the last token named, either only registered lines have been passed, or a
  failure has not yet cost the lines to come anything (`Trail`).
* `PassedInvariant` and `OnlyAnsweredLeaveHolds`, whatever breaks and has gone
  wrong before: what apn-pusher has passed is decided or was in flight on a
  connection that broke, hence what `remove_file_lines` leaves out is, and a token
  that is neither leaves its file, or the memory that holds the file while it is
  rewritten, in one step only, a kill between truncating the file and writing it.
  A step back to the first line leaves the last token named where it was, so that
  the invariant is about the lines up to that one too, and not only about those in
  front of the line at hand. That a campaign prepared again drops nothing needs
  that no token is marked before the index is written (`MarkInv`).
* `DecidedInvariant` and `NobodyForgottenHolds`. `DecidedInv` says that what was
  cut off a part file, and what a part that is done with had, is decided or lost,
  unless a kill tore a file or a part was abandoned.

`ApnConnectionProofs` proves one invariant, `ConnInv` (types, accounting,
certificate, `SessionInv`), with a lemma for the outcomes of opening a
connection that the connect, feedback connect and send cases share.
`ConnectionTypes`, `SessionInvHolds`, `NothingLeaksHolds`,
`CertificateFitsServerHolds`, `NeverSendsToFeedbackHolds` and
`ConnectedAsAskedHolds` follow.

`ApnSslProofs` proves `SslInv`: for every step of the attempt the exact number of
references to each kind of object, and what the SSL_CTX holds. Neither
`UsesAlive` nor `ObjectsAccounted` is inductive, since an error path frees what
earlier steps have made; the exact counts are, and `UsesAliveHolds` and
`ObjectsAccountedHolds` are read off them.
`ImplementsConnectionHolds` shows every step to be a step of `ApnConnection` or
a stutter; it needs the counts for the number of SSL objects, and that the
attempt's certificate is one the settings name.

`ApnPayloadProofs` proves `PayloadInv`: types, one block per string, the
arguments' store, what the document needs to know of the fields asked for, that
the first property is not named `aps`, and that without a misuse every slot is a live block
or NULL. The array functions have lemmas of their own, stated for any array.
`BlocksAccountedHolds`, `DocumentTellsHolds` (for a document whose dictionary is
not replaced behind another property), `UndefinedExplainedHolds`, `MemoryInvHolds` and `ArgsFitHolds` follow.

`ApnMessageProofs` proves `MessageInv`, for tokens and documents of any length:
the message is the command, the size and five items one behind the other, and
each item's data is what was stored last (`Laid`). `FrameTells` is not inductive
as it stands, since it says what a reader finds and not where: that the reader
comes to each item is what `LaidReads` shows, and that a store in one item leaves
the others alone needs their places. The hexadecimal form it keeps is a token, so
that `HexReadsBack` gives the bytes back. `TypeCorrect` and
`FrameTellsHolds` follow.

`DataProofs` has the same for the module the run checks (`MessageInvariantHere`:
any C string is offered as a token), and `CopiesFitHolds`, `PiecesFitHolds`,
`PartsJoinedHolds` (for a part no longer than the room left in the buffer) and
`TokensRoundTripHolds`, for strings and buffers of any length. The lemmas are about the operators: `StrncpyFits`, `SubstrFits`,
`StrcatJoins`, `BinaryReadsBack`. That the strings are any C strings over the
alphabet is `TextInvariant`. Two theorems do without the induction their statement
seems to ask for. `Utf8JudgedHolds`: that the recursive function of `IsUtf8`
exists is shown by giving it in closed form, by the places the check visits; a
proper string that it refuses, or an accepted one that cannot be cut, has a first
or last place where the check and the cuts part, and one step of the check
contradicts it. `ListsAgreeHolds`: the lines that are not blank and the words are
the same pieces of the text, and the map from the one to the other is monotone, so
that it keeps ranks.

The inductive invariants `BlameInv`, `CloseInv`, `ExactInv`, `OrderlyInv`,
`LostInv`, `SessionInv`, `MemoryInv`, `ShapeInv`, `ResentInv`, `PassedInv`,
`DecidedInv` and `MessageInv`, and the types of `ApnConnection`, `ApnSsl` and
`ApnMessage`, are only proved and in no run.

Assumptions on constants are the named `ASSUME`s of `Gateway`, `ApnSend`,
`ApnConnection`, `ApnSsl`, `ApnPayload`, `ApnStrings`, `ApnMessage`, `MCData` and
`Campaign`; TLC evaluates them in every run. The ones about the message say that
the size of a token (32) and the limit of a document (2048) fit in the
two bytes an item's header has for its size, without which no message would read
back. `Gentle`, `Calm` and `Renewing` are hypotheses of the theorems they are named
in; `ApnSendClose` is an instance of the first and the third, `ApnSendCalm` of
the second.

Only model-checked:

* liveness under fairness: `EndsUnlessReset` and `Ends`;
* the four violated properties, by their nature.

## 5. Not modelled

The text of the JSON document, `apn_payload_set_expiry` (a number that is only
carried to the frame), the copy of a custom property (nothing copies
`custom_properties`), the arithmetic of certificate times and the texts of their
names, memory exhaustion, logging and error texts, option parsing, the password
prompt and the log file of apn-pusher (whose file pointer is read unassigned when
there is none, `pusher.c:74`), the SQL of the token table, Windows code paths.
These are I/O, formatting, or arithmetic of the C library that no property here
depends on. Tokens of a campaign are well-formed, as the table's `char(64)`
column and its split by first digit suggest; malformed ones are `ApnSend`'s.
A run of apn-pusher in `Campaign` has what `ApnSend` shows of its one call, the
losses, repetitions and missed verdicts included, but is not an instance of it:
the number of tokens is a constant there and the length of a shrinking file
here, and a constant cannot be substituted by a state function.

## 6. Plan

Done: `apn_send` with its gateway, the connection life cycle, the campaign; the
connection attempt in steps; payload, array, strings and message; the refinements
between them; the proof of every invariant, step property and refinement the
passing runs check. Only the two liveness properties are left to TLC.

Left:

1. What a restart may change in a campaign, as a step property beside
   `OnlyAnsweredLeave`, and a bound on what a torn file costs.
2. A run in which the gateway stops reading, with the timeout of `select()`
   (`apn.c:730`) as state.
3. The times of certificates, and a passphrase that is NULL, as choices of their
   own.

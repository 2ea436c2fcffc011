# A TLA+ model of neatvnc

neatvnc is a library for writing VNC servers. The application that uses it
supplies frames and decisions; the library talks to the clients. This directory
models its parts and their interplay, checks them with TLC and proves the safety
properties of most of them with TLAPS. Paths such as `server.c` are
below `src/src/`.

## 1. The system

### Parts, state, operations

| Part | State | Operations |
|---|---|---|
| message loop (`server.c`) | `msg_buffer`, `is_processing_messages`, the client's state, `is_blocked_by_fence` | `on_client_event` reads into the buffer; `process_client_messages` dispatches one message after the other |
| handshake (`server.c`, `auth/`) | client state, security types, credentials object, `handshake_timer` | version, security type, VeNCrypt, RSA-AES, Apple DH, VNC auth, the application's verdict, ClientInit |
| update pipeline (`server.c`) | `n_pending_requests`, `is_updating`, `damage`, `known_layout`, `formats_changed`, what is due of cursor, name, LEDs | `process_fb_update_requests`, `on_compositing_done`, `finish_fb_update`, `complete_fb_update` |
| fences, continuous updates (`server.c`) | `pending_fence`, `must_block_after_next_message`, `continuous_updates_enabled` | `on_fence_request`, `process_pending_fence`, pings and their answers |
| TCP stream (`stream/tcp.c`) | `send_queue`, `cork`, event mask | send, flush, on_writable, close |
| encrypting and WebSocket streams (`stream/`) | message buffers, ciphers | as TCP, over TCP |
| compositor (`compositor.c`) | sequence numbers, per-buffer damage | `compositor_feed`, a worker job, `compositor_destroy` |
| encoders (`enc/`) | the current frame, zlib streams, H.264 contexts | `encoder_encode`, `on_done` |
| parallel deflate (`parallel-deflate.c`) | input, `seq`, `start_seq`, sorted list of chunks | feed, sync, destroy, a job per block |
| displays, layout, damage refinery (`display.c`, `damage-refinery.c`) | displays with their current buffers and hashes, the layout a client knows | add, remove, move, feed; `check_desktop_layout` |
| frames, buffers, pools (`frame.c`, `buffer*.c`, `frame-pool.c`) | reference counts, a queue of free buffers, weak observers | acquire, resize, recycle |
| clipboard (`server.c`) | a partial cut text, capabilities, the saved text | reassembly over several reads, notify, request, provide |
| helpers (`pixels.c`, `transform-util.c`, `region.c`, `utf8.c`, `base64.c`, `cursor.c`) | none | pixels, transforms, regions, text |

### How they interact

Everything runs on the thread of the event loop (aml), except the jobs that
compositor and encoders start on a pool of workers, whose `on_done` callbacks
run on the event loop again. The difficulty is not threads alone. Handlers call
each other: sending data may flush the queue, which runs the completion callback
of a frame, which starts the next update, which may send a notification, which
counts a request down, which may answer a fence, which resumes the message loop,
which handles a message, which sends. Flags (`is_updating`,
`is_processing_messages`, `cork`) cut the recursion. The application is called
back (`auth_fn`, `new_client_fn`) and may call the library from there.

### What is hard

* re-entrancy: state read by an outer call and changed by a nested one;
* event loops inside of handlers: `client_close` runs one until the encoder is
  done and one until the compositor is, and anything may happen in them;
* jobs that end after their client, encoder or stream is gone;
* requests, fences, format changes and resizes that arrive while a frame is in
  the pipeline;
* partial writes, `EAGAIN` and disconnects in the middle of any handler;
* verdicts on credentials that come early, late or after the client's end;
* liveness: wake-ups, the fence block, the handshake timer, workers that wait
  for jobs of their own pool;
* wrap-around of sequence numbers;
* messages, records and frames that arrive in pieces of any size, and buffers
  that fill up in the middle of them;
* two computations of the same thing that must agree to the pixel: where damage
  goes and where the compositor draws, what is hashed and what was sent.

`PROJECT.json` lists each of these under "hazards", at the line where it bites.

### What makes each part correct

* message loop: every received message is processed, once, in order, unless the
  connection ends;
* handshake: nobody gets in without a verdict, credentials come from the
  encrypted channel, who is there when a client asks for exclusive access is gone
  when it gets it, every handshake ends;
* update pipeline: one update in flight, every request answered once, damage is
  never lost, nothing calls back into a freed client;
* fences: answered after what they wait for, and the client is let go;
* streams: what is queued is written or the stream closes; each direction is an
  ordered stream of bytes, whatever is underneath;
* compositor: composites come out once, in order, each in a buffer of its own;
* clipboard: what is provided is what the application set last;
* displays: no pixel that changed stays old at a client;
* pixels, damage, text: a client reads what the server meant;
* parallel deflate: the output is the input in order, flushes end;
* encoders: every frame is encoded, its damage is in the result, the client can
  decode it, and no job outlives its encoder.

## 2. Modules

| Module | Models |
|---|---|
| `StreamTcp` | the sending side of a TCP stream; used by `FbUpdate` |
| `FbUpdate` | one ready client: message loop, update pipeline, fences, continuous updates, closing; composed with `StreamTcp` |
| `Handshake` | several clients from accept to ready, the application's verdicts |
| `ParallelDeflate` | one parallel zlib stream |
| `ZrlePool` | ZRLE encoders on the shared pool of workers |
| `Compositor` | the compositor, its jobs, side data and buffer pools |
| `OrderedJobs` | abstract: what a pipeline of jobs promises; `Compositor` implements it |
| `Encoders` | raw, Tight and Open H.264 encoders with both back ends, and their client |
| `Streams` | TCP, WebSocket, RSA-AES and TLS streams over a socket |
| `ByteStream` | abstract: one direction of a stream; `Streams` implements it twice, the message loop of `ClientInput` once |
| `ClientInput` | reading and dispatching a ready client's messages, the clipboard |
| `Displays` | displays, layouts, the damage refinery and what a client shows |
| `Geometry` | transforms, regions, composites, layouts; used by `Displays`, `Cursor`, `ClientInput` |
| `Pixels`, `Cursor`, `ZrleTile`, `Text` | pixel conversion, the encoded cursor, ZRLE tiles, character sets and base64 |
| `Algorithms` | the last six, as jobs with one input each |
| `FbUpdateProofs`, `CompositorProofs`, `HandshakeProofs`, `ParallelDeflateProofs`, `ClientInputProofs`, `EncodersProofs`, `AlgorithmsProofs` | inductive invariants and theorems |
| `MC*` | constants for TLC; `MCDeflate` is about `ParallelDeflate` and `ZrlePool` |

**StreamTcp / FbUpdate.** The variables carry the names of the fields of
`struct nvnc_client` and `struct stream` (`nPending` is `n_pending_requests`,
`job` the frame being composited or encoded, `due` the notifications not yet
sent). The variable `stack` is the C call stack, innermost call first. A handler
is one action up to its next call of something that may re-enter; what follows
the call is a frame of the stack. So `SendNotification` queues a notification
and pushes `dec`; `BeginDecrement` is `decrement_pending_requests` up to
`process_pending_fence`; `EndDecrement` is what happens afterwards. While the
stack is not empty only its head can step; jobs ending, socket events,
application calls and deferred closes need an empty stack and a thread that is in
an event loop (`Idle`). Three ghost variables record what the client sees: `stale`
(areas with old contents), `owed` (requests minus updates, or minus cursors that
could not be encoded) and `cuEver`; the field `fenced` of a job says that a fence
came in for it from `on_client_event`.

The variable `life` says where `client_close` is. `ClientClose` closes the stream
and is called for a read error (`ReadError`), the end of the connection, a message
that the server does not know (`OnBadMessage`), by `nvnc_client_close` and by
`nvnc_del` (`ServerClose`). In "drain" the event loop of `client_drain_encoder`
runs, until the update is over; in "destroy" that of `compositor_destroy`, until
the compositor has nothing to do. Jobs end, fail and lead to others there, like
anywhere. `DestroyEnds` frees the client. A framebuffer is a set of areas. A
message buffer counts messages, not bytes. A frame with its header and resize
rectangle is one request of the stream, and "part of it was sent" is one bit.

**Handshake.** A message is a token with the channel it was read from; its
meaning is chosen when the client's state interprets it, so every content the
handlers distinguish occurs, faulty ones included. Cryptography is not modelled:
the handlers find a message at fault or not. The application may accept, reject
or close at any time from the event loop and also within `auth_fn`; within
`new_client_fn` it makes no call (section 6). Settings are fixed before the
first client connects. `Close` begins `client_close`, which stops the timer and
closes the stream; the client stays in the list, in the state "closing", until
`ClosingEnds`. If an update of it may be composited, the call is a frame of the
stack under which the event loop goes on: other clients connect, go on with their
handshakes, are closed, or ask for exclusive access in turn. A client that asks
walks along the list: `met` is who was connected when it asked, `next` the client
that `LIST_FOREACH_SAFE` has taken down as the next. Either it or the client that
asked may be gone when the nested loop returns; what the code does then is
undefined, and the model goes no further (`GoWild`).

**ParallelDeflate.** Bytes are counted: a piece `[n, from, to]` is a range of
what was fed. `n` has no bound, the program's sequence number is `Seq32(n)`, and
all comparisons use that. The mutex makes the scan of the list exclusive
(`phase = "scan"`); condition variable wake-ups are signalled or spurious.
`synced` says how far the encoder has synced: it syncs after every rectangle and
is destroyed only between frames.

**ZrlePool.** A queue of jobs, workers, and encoders whose frame job schedules
deflate jobs on the same queue and then waits on its worker. The pool itself
(aml) is external: a FIFO queue from which idle workers take jobs.

**Compositor.** `seq_head`, `seq_tail` and the jobs between them; a job is
queued, running, asleep on the condition variable, finished (its `on_done` is
posted to the event loop) or done. Each `compositor_feed` resizes the pool, takes
a buffer, links side data and starts a job, or passes straight through; each
allocation may fail. `compositor_destroy` enters the state "draining", in which
only workers and posted callbacks run, and leaves it when the numbers meet.
`accepted` and `delivered` are the history that the refinement mapping to
`OrderedJobs` uses.

A composite that leaves the list of a compositor that was freed, as the first of
that list, writes to the list's head, which is gone (`IsFirst`); the variable
`touched` records it.

**Encoders.** One client drives its encoders as `server.c` does. A frame is a row
of framebuffers of columns; a column is a tile. The state is composed in records
so that the calls of one C handler, in which callbacks start or destroy things,
are one action. `fault` says that a V4L2 back end was used which the handler of its
own packet had destroyed. `peer` is the viewer: it inflates, decodes and notices
what it cannot.

**Streams.** A unit is a byte or a group of bytes that is never split. The peer's
units are read and the server's written any number at a time: messages, frames,
their headers and the lines of the upgrade request are cut anywhere. `peer` parses
what it gets as the protocol says. The refinement mappings give `ByteStream` the
payload that was accepted and the payload that came out at the other end.
Callbacks may send and close the stream. Ciphers are taken to be correct: an
encrypted unit is the unit, and a message has a MAC, which may be wrong. The code
does not keep the promise everywhere. Two ghost variables say from where on it does
not: `torn` when a message is sent into the middle of another frame, `lost` when
the parser of the WebSocket has lost its place; a unit that was unmasked with the
wrong byte of the key is `Altered`. Section 6 has the cases.

**ClientInput.** The units of messages arrive in reads that end anywhere. A
handler is an action that needs some number of units at the front of the buffer.
Cut text that is longer than the buffer is collected while the loop is bypassed.
Fences and updates appear as far as they block the loop; `FbUpdate` has the rest.
Framebuffer update requests are in `FbUpdate` only.

**Displays, Algorithms.** A desktop one pixel high over time: displays are added,
removed, moved, resized, turned and fed, clients with and without interest in
damage come and go, and a client takes updates and shows them. A display that is
scaled is shown through a bilinear filter: `ShownPixels` are those of the buffer
that are blended into a pixel of the desktop. The factor by which damage is scaled
is a rounded double, so a quotient that is a whole number may come out above it
(`inexact`). The ghost `astray` of a client says that one of the three cases of
section 6 happened to it, in which old pixels stay. The pure functions are operators; a
behaviour of `Algorithms` picks one input and computes one result, and the
properties compare it with a definition that goes another way: the client's
reading of the bytes, the compositor's backward mapping, the definition of UTF-8,
a decoder of ZRLE tiles.

Operators introduced by a comment "Mutant:" are not part of a specification:
each is a plausible bug in the definition below it. `PROJECT.json` names, for
every property, one that violates it; they show that the properties are not
vacuous.

## 3. Runs

| Run | Result | Shows |
|---|---|---|
| `update_plain` | holds | without fences, with failures of `ensure_encoder`, `compositor_feed`, `encoder_encode` and `cursor_encode`, congestion, disconnects, unknown messages and closing in the middle of it all: `is_updating` and the request count are exact, no assertion fails |
| `update_fences` | holds | with fences that resume the message loop inside of itself and everything that can fail, unhandled errors of `sendmsg` included: fences behind their frames, no callback into a freed client |
| `update_flow` | holds | for a client without fences or notifications, on a socket that is congested: served, delivered, no damage lost |
| `fence_stuck` | violated | section 5 |
| `deflate` | holds | one stream: order, completeness, no clash, no use after free, and flushes return unless the sequence numbers wrap in them; the pool: frames are encoded unless each worker waits for jobs of the pool |
| `handshake` | holds | authentication, verdicts, TLS, exclusive access, termination |
| `compositor` | holds | refinement of `OrderedJobs`; buffers have one user; the end of a compositor waits for its jobs and comes |
| `algorithms` | holds | colours, damage, text and cursors on all bounded inputs; which pixels can be old on a changing desktop |
| `text_resync` | violated | section 5 |
| `streams` | holds | refinement of `ByteStream` in both directions by all four kinds, up to the cases of section 6 |
| `client_input` | holds | messages handled once and in order (refinement of `ByteStream`), all of them in the end; who is dropped; clipboard |
| `encoders` | holds | damage encoded, zlib and H.264 streams decodable, no use after free but by V4L2 packet handlers, `frame_barrier` counts the packets to come, nothing left when a client is gone, frames finish |

Where the code does not do what a property asks, and says nowhere that it does, the
property names the case as an exception, and the run has bounds in which the case
occurs: TLC shows then that there is no other. These are `Unpolled` (`Delivered`,
`Served`), `Wraps` (`SyncReturns`), `Deadlock` (`FramesEncoded`), `torn` and `lost`
(`SendsInOrder`, `ReadsInOrder`), `astray` and `IsEnlarged` (`NoStalePixel`,
`DamageShown`), `fault` (`Lifetimes`), `hung` (`HandledAll`), and `Lost`
(`DestroyReturns`).

### Bounds

* Updates: three or four client messages and one to three application calls, one
  or two areas. The interesting cases need a frame in the pipeline, one message
  that disturbs it and one that follows; violations found take at most five
  messages. A message buffer of three or four fills up (reading into a full buffer
  closes the connection). Without notifications in `update_flow`, what a completion
  callback queues is a frame or a ping; without fences, nothing blocks the loop,
  which is what `fence_stuck` is about.
* Each of these runs has the failures and messages under which its properties
  hold; section 4 says which those are and that they do not depend on the other
  bounds, section 6 what happens without them. `update_fences` has assertions
  compiled out (`NDEBUG`), because with them the defect of `fence_stuck` aborts
  the program.
* Deflate: blocks of two bytes, nine bytes, up to seven pieces outstanding:
  several blocks per feed, a rest, several syncs on one stream, any order of
  job ends. Sequence numbers are taken modulo 8, one more than there can be
  pieces, and wrap.
* Pool: two encoders, two workers (`zrle_encoder_new` asks for two), two
  rectangles of two blocks.
* Handshake: three kinds of settings, which together allow every security type:
  no authentication, required encryption with TLS, and authentication without
  encryption that allows VNC auth. Without authentication there are three clients
  with two or three messages each: one that asks for exclusive access, one that
  is being closed for it, and one that comes meanwhile. With it there are two,
  one with seven messages, which end every handshake (RSA-AES with ClientInit
  takes seven), and one that has begun its own with three. A buffer holds three
  messages.
* Compositor: two workers, three feeds of two sizes, four buffers: a job can wait
  for one that has not started, a pool be replaced while buffers are out, and a
  buffer come back.
* Encoders: three frames, two layouts (one of two framebuffers), two zlib
  streams, two source buffers, four back ends: a switch away from an encoder and
  back, a resize between frames, a frame begun inside of the callback of another.
* Streams: two messages of two units, two frames of the peer of up to three units
  with every opcode, a read buffer of three units below a stream's buffer of five,
  a masking key of two: every split into pieces, chunks that begin at a multiple of
  the key's size and that do not, a message longer than what is read at once, one
  that does not fit the buffer.
* Client input: three messages out of three menus (fences, one of each kind,
  clipboard), a buffer of four units and cut texts of one to seven: texts that
  fit, that do not, and that are over the limit.
* Algorithms: all formats of `PIXEL_FORMAT_TABLE`, every single bit and its
  complement with a neighbour that is the opposite; buffers up to 3 x 3 shown at
  up to 4 x 4 under all transforms; texts of up to four bytes from one of each
  class of UTF-8; cursors up to 2 x 2; ZRLE tiles of up to seven pixels with a
  palette of two and run bytes up to three (16 and 255 in the code), so that full
  palettes, full run bytes and raw tiles occur; desktops of two displays and five
  calls, with buffers three wide shown at two and with sizes, positions and
  transforms that change and change back.

Deadlock is not checked: the application and the peers may stop, and the bounds
end every behaviour.

### Fairness

* `FbUpdate`: the thread continues a handler, jobs end, the event loops of
  `client_close` end when they can, the event loop delivers events, the
  socket drains, the client reads what it is sent and answers pings. The
  client's requests and the application's frames need not come.
* `ParallelDeflate`: the feeding thread runs, and workers run their jobs. For
  the latter fairness is strong: the mutex can be taken from a worker by
  spurious wake-ups again and again, but not for ever. Spurious wake-ups are
  not fair, so no property relies on them.
* `ZrlePool`: workers that can run do, the event loop runs `on_done`.
* `Compositor`: workers take and finish jobs, the event loop, or the one inside
  of `compositor_destroy`, dispatches what was posted and ends when it can.
* `Encoders`: work objects and devices make progress while there is any; it is
  weak fairness of one action, written with its enabling condition.
* `ClientInput`: the loop goes on, a readable socket is read, updates that were
  started end. What the client sends is not assumed.
* `Handshake`: handlers and callbacks return, nested event loops end, tasks
  and timers of the event loop run. Nothing is assumed of peers and
  application: `HandshakeEnds` holds if they do nothing.

## 4. Proofs

### Parallel deflate

`ParallelDeflateProofs` proves for every block size, any feeds, any number of
workers and any order of job ends:

| Theorem | Property |
|---|---|
| `TypeCorrect` | `TypeOK` |
| `OrderedOutput` | the output is the bytes fed, in order, behind one header |
| `DistinctSeqs` | the assertion of `insert_output_chunk` |
| `SafeDestroy` | no job and no chunk outlives `parallel_deflate_destroy` |
| `CompleteSync` | at the end of a sync everything fed is in the output |

The only assumption beyond the types of the constants is `MaxPieces <
SeqMod`: one rectangle is cut into fewer pieces than there are `uint32_t`
values; numbers may wrap any number of times. The feeds of one rectangle are
bounded by `MaxPieces`; the total is not bounded, except by `MaxBytes`, an
arbitrary number.

`OutputInOrder` is not inductive: that the next chunk continues the output must
be known before it is taken. The inductive invariant `IInv` adds

* `Window`: outstanding pieces are numbered within a window of `SeqMod`;
* `Numbered`: each number of that window is used at most once, and no piece is
  job and chunk at once;
* `Chained`: pieces with consecutive numbers hold consecutive bytes, the first
  continues the output, the last ends at `cut`;
* `Ending`: an end chunk is the last piece and belongs to a flush, so a flush
  that has seen it has taken everything, and between rectangles everything that
  was synced has been put out;
* `Header`: `is_at_start` says that nothing was put out.

`ModUnique` and `SeqUnique` turn equality of sequence numbers into equality of
pieces within the window; `DueIsNext` says that the chunk a scan takes has the
number `taken`. Each action has a lemma that it preserves `IInv`.

### Handshake

`HandshakeProofs` proves all safety properties of the run `handshake`, for any
set of clients, all settings and any buffer size:

| Theorem | Property |
|---|---|
| `TypeCorrect` | `TypeOK`; the message buffer does not overflow |
| `NobodyUnauthenticated` | ClientInit only after an accepted verdict, where authentication is required |
| `VerdictsMatch` | the assertions of `nvnc_auth_creds_accept` and `_reject` |
| `PlainCredsThroughTls` | VeNCrypt credentials came through TLS |
| `NothingLeftUnread` | no message is left that a handshake could go on with |
| `ExclusiveAlone` | `ExclusiveAccess`: when an exclusive client becomes ready, whom it found is gone |

The assumptions are the types of the constants. The invariant `IInv` adds to the
properties what connects call stack, buffers and client states:

* `Beginnings`: before credentials are handed over there is no credentials
  object, and before a client connects its buffer is empty. `CredsMatchState`
  needs this for a client that moves from one early state to the next;
* `CleanBuffer`: on TLS everything buffered came through TLS, because
  `on_vencrypt_subtype_message` refuses to upgrade with data behind its message;
* `Ordered`: the message loop of a client is on the stack at most once, and its
  `on_init_message`, called at most once, is above it;
* `Suspended`: while that is suspended, disconnecting the others, the loop of its
  client is below it and its message still in the buffer;
* `InitCall`: `new_client_fn` is the innermost call, and its client waits in
  ClientInit. `Authenticated` needs this, as `on_init_message` makes its client
  ready only after the callback;
* `Attended`: a client with a message it could go on with has its loop on the
  stack. `NothingUnread` is the case of an empty stack.

`ExclusiveAlone` has an invariant of its own, `WInv`, because the list changes
under the walk along it. `Walk` says that each client that was met is gone, or is
`next` or behind it in the list, or is being closed in an event loop above the walk
on the stack; `Alone`, that none that was met is left when the walk is over;
`WalkData`, that only clients that were connected were met; `Bounded`, that there is
a last client in the list at all times (it has the latest first, and clients are
numbers in the order they came). `Connected` ties timers and open streams to
clients that are not being closed.

`Push` and `Pop` describe a call and a return by the set of calls on the stack;
`AdvanceInv`, `CloseInv` and `AuthenticateInv` treat the three things a handler
does, and the handlers are instances of them.

### Compositor

`CompositorProofs` proves all safety properties of the run `compositor`, for any
number of workers and feeds, any finite set of buffers and any sizes:

| Theorem | Property |
|---|---|
| `TypeCorrect` | `TypeOK` |
| `BuffersExclusive` | composites in use have buffers of their own, of their size, that do not wait in a pool; no buffer is lost but on the error path without side data |
| `CompletionsInOrder` | the assertion of `on_work_done`; side data is unlinked once; nothing is left when the compositor is freed |
| `RefinesOrderedJobs` | `Compositor` implements `OrderedJobs` |

Besides types it is assumed that 0 is not a size of a frame: the model uses it
for a buffer that is not allocated. The invariant `IInv` adds

* `JobOrder`: numbers up to `seq_tail` are done, those up to `seq_head` in flight
  or lost, and at most one completion is posted, that of the next job. A worker
  that finishes waits for `seq_tail` to come to its number, so the posted
  completion is the one that `on_work_done` asserts;
* `WorkQueue`: the jobs that no worker has are in order;
* `Holding`: a frame belongs to its job, then to the encoder, then to nobody;
* `Pooled` and `Separate`: buffers are out, waiting, leaked or not allocated, and
  frames that are held have different ones. A buffer remembers the generation of
  the pool it came from, so one that comes back after a resize is not queued;
* `Order`: what was accepted is what was delivered followed by the jobs in flight,
  up to the first that could not be started. This is the step from
  `CompletionsInOrder` to the refinement: a delivery takes the next accepted
  composite, a composite that passes straight through finds nothing in flight.

### Updates

`FbUpdateProofs` proves all safety properties of the runs of `FbUpdate`, for any
areas, messages, application calls, bounds and buffer size. The properties need
different hypotheses, stated in the theorems:

| Theorem | Property | Hypotheses |
|---|---|---|
| `TypeCorrect` | `TypeOK`; the message buffer does not overflow | none |
| `CallbackHasClient` | `NoDanglingCallback` | none |
| `FencesWait` | `FenceAfterFrame` | none |
| `Staged` | an update is in one stage (`InOneStage`) | no unhandled error of `sendmsg` |
| `AtMostOneUpdate` | `OneUpdateInFlight` | and no fence requests |
| `NoAssertFails` | `NoAbort` | the same |
| `RequestsCounted` | `Accounting` | the same |
| `DamageKept` | `NoLostDamage` | and encoding does not fail and the client keeps the fence extension |

The hypotheses cannot be left out: section 6 has configurations in which TLC
refutes the properties without them (only `NoAbort` has no known counterexample
with unhandled errors; its proof uses the stages). Disconnects, congestion, throttling,
continuous updates, notifications, cursors that cannot be encoded, the event loops
inside of `client_close` and any nesting of handlers are always there.

`CallbackHasClient` follows the life of the client. `client_close` begins anywhere
that a handler can be, with a frame composited, encoded or queued; the first event
loop waits for the frame, only while the server closes; the second waits for
compositing, whose end may start an encoding that is still under way when the
client goes. Only then is the encoder's callback cleared (`LifeStep`).

The invariant comes in layers.

1. `InOneStage`: the frame is in the queue of the stream (`Writing`), or
   `complete_fb_update` is about to run for it (`Completing`), or it is
   composited or encoded (`Working`), or there is none (`Free`); each stage
   says which calls the stack may hold. While the frame is in the queue
   nothing on the stack is past the early returns of
   `process_fb_update_requests`. `FlushOutcome` is the heart: a flush that
   takes the frame runs one completion, a flush that closes the stream
   clears `is_updating`.
2. Without fence requests `NoFences` holds, so `process_pending_fence` never
   resumes the message loop, and by `Nested` at most one call on the stack is past
   the early returns: the innermost one, or the one that has just called
   `process_pending_fence`. It runs only while no update is in flight. Layers 1 and
   2 together are `Calm`; `OneUpdateInFlight` and `NoAbort` follow.
3. `Counted`: inside of handlers, too, `owed` is `n_pending_requests` plus the
   frame that is encoded minus the request that `decrement_pending_requests` is
   about to take off; whoever is past the early returns has a request to spend.
4. `Shown`: damage leaves `damage` for `job`, `job` for the queue and the queue for
   the client; `StartFrame` does not overwrite a job because of `Calm`. `Cut` and
   `Joined` say what a flush and a send do to the areas in the queue.

`FencesWait` needs none of these layers. Its invariant `FenceHeld` says that while
a fence waits for a job, `is_updating` is set, no other frame is in the queue, and
no call on the stack can complete an update or answer a fence: the message loop
and calls of `process_fb_update_requests` that will return at once.

`Push` and `Pop` again describe the stack by the set of calls on it.

### Message loop

`ClientInputProofs` proves the safety properties of the run `client_input`, for
any messages of any lengths, any sizes of the buffers and any limit for cut text:

| Theorem | Property | Hypotheses |
|---|---|---|
| `TypeCorrect` | `TypeOK`; `msg_buffer` does not overflow | none |
| `MessagesInOrder` | `HandledInOrder`: the loop implements `ByteStream`, each message handled once and in order | none |
| `LatestProvided` | `ProvidesLatest` | none |
| `DropsOnlyBlocked` | `DroppedOnlyBlocked` | what a handler waits for fits in `msg_buffer` (`Fits`) |

It is assumed of the messages that their lengths are numbers and that a pointer
event has one of its two forms. `Fits` is needed: a `SetEncodings` message may
have 65535 encodings and `MSG_BUFFER_SIZE` is 4096 bytes. With `MsgBufferSize = 2`
in `MCClientInput`, TLC shows a client that is dropped while it sends a message
that is longer than that.

The invariant `InOrder` says where the messages lie. `Laid`: there is a function
`start` such that the `k`-th message, if it was not handled, occupies the places
from `start[k]` to `start[k + 1] - 1` among the units in `msg_buffer` and behind
them in the socket, without a gap, and the next message to handle starts at 1, or
before it if a part of its text is in `cut_text` already. `start` is not a sum
over the messages but a function that exists, so no induction over them is needed:
`Shifted` says what taking units away does to it, `Extended` what a new message
does. `CutKept` ties the text that is collected to that message, `LongPointers`
says that the client sends the long form of a pointer event only to a server that
reads it. From `Laid` it follows that each turn begins at the first unit of a
message (`InFront`), and that the reads of `process_big_cut_text` get that
message's text and no more.

`Waits` adds for `DropsOnlyBlocked` that the loop stops, unless a fence stops it,
only in front of a message that is not complete; `KeptIsLatest` adds for
`LatestProvided` that a text that is kept is the latest.

### Encoders

`EncodersProofs` proves for any composites, any number of zlib streams, source
buffers, frames and back ends, and every interleaving of workers, device,
callbacks and client:

| Theorem | Property | Hypotheses |
|---|---|---|
| `EncodersLiveAsNeeded` | `Lifetimes`: nothing is used after it was freed, but a V4L2 back end by its own packet handler, and nothing is left at the end | `WellUsed` |
| `BarrierIsSound` | `BarrierCounts` | `WellUsed` |

`WellUsed` says that framebuffers have a width (a new context has none, and
`open_h264_ctx_encode` makes its back end because the sizes differ) and that the
number of streams is a number. The handler of a V4L2 packet may destroy the back
end that the packet came from, which then goes on with it: `Lifetimes` says that
this (`fault`) happens to V4L2 back ends only, and the counts and all the rest are
right afterwards as well. Section 6 has the case.

The inductive invariant `Safe` is `WorldOk` of the state. Its parts:

* `Refs`: `ref` of the raw encoder is the client's reference and one for a job;
  `ref` of the Tight encoder is the client's, that of `keepsTight`, one for each
  of the `n_jobs` and one for the finishing job; an encoder is there exactly if
  the number is not zero; `n_jobs` is the number of jobs, and each is for a
  stream of its own;
* `Flight`: jobs belong to the encoder that the client has and a frame that is
  not finished, as long as the client is there;
* `PoolOk`: an FFmpeg back end with a frame at the worker has exactly one work,
  and no other has any; `please_destroy` is set only while it has one, and a back
  end that was freed has nothing queued;
* `ContextsOk`: the back ends in use are those of the contexts, one each, and a
  back end with packets to come is not about to be replaced;
* `BarrierOk`: the frames that are queued, at a worker, in the device or ready,
  over all back ends that were not destroyed, are at most `frame_barrier`; and
  that is zero between frames.

A handler of the code makes several calls, and in between the calls it holds a
reference that nobody else knows of. `WorldOk(w, hr, ht, type)` therefore takes
the references of the running function; each function has a lemma that says what
it does to `WorldOk` (`Unrefs`, `FeedsFb`, `Closes`, `Encodes`, `HandlesPacket`),
and each action one that composes them. The loops over the framebuffers of a
composite and over contexts are recursive functions: what they preserve is proved
by taking the least number at which it would fail (`WFMin` of
`WellFoundedInduction`), which needs no induction rule with a parameter.

The proof led to two of the properties: `BarrierCounts` is the part of the
invariant on which the assertions of `open-h264.c` depend, and that nothing is
left at the end is what the counts are for. The run checks both as well.

### Displays and damage

`AlgorithmsProofs` proves, for buffers and displays of every size and all
transforms:

| Theorem | Property | Hypotheses |
|---|---|---|
| `DamageCoversShown` | a desktop pixel is in the damage of every pixel of the buffer that is blended into it, or, if the display is shown enlarged, of the one that is its main part | none |
| `DamageWithinMargin` | damage is at most one pixel outside of the display | none |
| `DamageIsShown` | `DamageShown`, which is both | none |

`nvnc_display_feed_frame` maps rectangles forward and rounds outwards,
`composite_buffer_now` maps the centre of a pixel back and blends the pixels that
are less than one away. Both are compared through the distance between a point
fetched and the centre of a pixel of the buffer, in each direction (`Gap`):
`ApartIs` says that the matrix of each transform only swaps directions and turns
them round, so that the distance is the same in the transformed buffer.
`BlendInSpan` is the arithmetic for a display that is shown smaller: less than a
pixel of the buffer is less than a pixel of the desktop, and the span that
`nvnc_region_scale` makes of a pixel reaches that far. `MainInSpan` is that for an
enlarged one, where only half a pixel is sure. `SpanInside` bounds the span, with
a factor that may be too large.

That the whole desktop is never stale but in the cases of section 6,
`NoStalePixel`, is checked and not proved.

### What is only model-checked

* Liveness (`Served`, `Delivered`, `SyncReturns`, `FramesEncoded`,
  `HandshakeEnds`, `DestroyReturns`, `HandledAll`, `FrameFinishes`) is outside
  the reach of TLAPS.
* `ColoursPreserved` and `TextPreserved` compare the results of two recursions
  over the bits of a pixel or the bytes of a text, of which one goes another way
  than the other; that is induction over data.
* `NoStalePixel` (`Displays`): what a client shows of a desktop through a sequence
  of updates.
* `DamageEncoded` and `Decodable` (`Encoders`) are about the
  rectangles and packets in sequences sorted by a `CHOOSE`, and compare folds over
  them.
* `SendsInOrder` and `ReadsInOrder` (`Streams`): the refinement mappings are
  folds over framed and encrypted units.
* `FramesEncoded` and the rest of `ZrlePool`: its question is liveness.

## 5. Findings

`fence_stuck`, `server.c:2165`. A fence that arrives while a request is pending
sets `is_blocked_by_fence` and stays in the buffer, but no fence is pending, so
`process_pending_fence` returns before it unblocks. The client's messages are
never read again. With assertions, line 2802 aborts the program at the next
notification. `PROJECT.json` quotes the comment this contradicts.

`text_resync`, `utf8.c:70`. A lead byte that announces more bytes than the text has
left ends the conversion with a question mark. Whatever follows it is gone, also if
it is no continuation byte but plain text: of <<224, 65>> only the question mark is
left. The test (`test/test-utf8.c:56-58`) wants the decoder to "keep the next byte
instead of swallowing it"; its texts go on long enough for lines 87-91, which do.

## 6. Observations

Behaviour met while modelling that no document of the repository speaks of. It is
an exception which a property names, or it is outside of the passing runs; where
constants are named, that change of a configuration makes TLC show it.

### Updates and fences

* `server.c:1066`: `decrement_pending_requests` answers the pending fence before
  it decrements. The resumed message loop may spend the same request; the count
  becomes -1 and the client got an update it did not ask for: `Accounting` fails in
  `MCFbFences` without failures (`SendErrors` and `Disconnects` `FALSE`,
  `EncodeFaults <- NoFaults`); `NoAbort` fails there with `NDEBUG = FALSE`, by the
  defect of section 5.
* The outer `process_fb_update_requests` goes on after that and starts a frame
  although the nested one has started one: `OneUpdateInFlight` fails in
  `MCFbFences` without failures. The second frame takes the place of the first,
  whose damage is gone: `NoLostDamage` fails there with `Areas <- TwoAreas`,
  `Msgs <- SyncMsgs`, `MaxMsgs = 5`, `Events <- NotifyEvents` and `MaxEvents = 2`.
* A fence that the resumed loop reads while the nested update is encoded may be
  answered by the `finish_fb_update` of the frame before, which is suspended below
  it: `FenceAfterFrame` is about fences that `on_client_event` reads (`fenced` is
  set if the loop is the only call on the stack).
* `server.c:2887`: a frame dropped after a format change gives its request back,
  but not its damage: `NoLostDamage` fails in `MCFbPlain` with
  `EncodeFaults <- NoFaults`, and with the encoding faults of that file the damage
  of a frame that could not be set up is lost as well.
* `tcp.c:156`: what completion callbacks queue during a flush is not flushed and
  not polled for, nor is what is left when `sendmsg` took whole requests: `Unpolled`,
  the exception of `Delivered` and `Served`, is reached in `MCFbFlow`, and without
  congestion with `Congestion = FALSE`, `Events <- PlainEvents`,
  `EncodingSets <- BasicEncs`.
* `tcp.c:117`: after an unexpected error of `sendmsg` the request is still
  queued, although its update was completed, and the next flush completes it
  again, while another frame is in the pipeline: with `SendErrors = TRUE`,
  `OneUpdateInFlight` and `NoLostDamage` fail in `MCFbFlow`, `Accounting` in
  `MCFbPlain`. A fence that waits for the other frame may then be
  answered before it; `FenceAfterFrame` is about frames that are alone in flight
  (`OnlyJobInFlight`).
* `server.c:2161-2186`: the comment says that a fence is not processed while one
  is pending, the condition tests the client's requests instead. While a frame
  is encoded with no request pending, a second fence overwrites the first
  (`OnFenceRequest`), which is then never answered.
* `server.c:1255`: an incremental request under continuous updates makes the
  handler return 0, which the loop takes for an incomplete message
  (`IgnoreRequest`). It stays in front of the buffer.
* `server.c:1075`: after a failed `ensure_encoder` or `compositor_feed`
  `is_updating` stays set and the client gets no more updates.
* `server.c:920`: a cursor that cannot be encoded is not sent, and its request is
  counted down all the same.
* `server.c:2304`: a message that the server does not know closes the client at once.
  `process_client_messages` has a weak reference and returns, but if
  `process_pending_fence` has resumed it, the functions below that go on with a client
  that was freed. `FbUpdate` follows the client, and not these calls.
* `server.c:3031`: a client that is closed by `process_fb_update_requests` is
  freed inside of `LIST_FOREACH`.
* `server.c:3439`: a cursor with an unchanged image and another hotspot is not
  sent; and with the frame that is already set, it is released before it is taken
  again.

### Handshake

* `server.c:520`: closing the others runs event loops. A client that connects in one
  is not closed and coexists with the one that has exclusive access
  (`ExclusiveAccess` is about those that were met). A client that is being closed is
  still in the list and is closed a second time by one that asks for exclusive
  access in the loop; the client that was to be next, or the one that asked, may be
  freed in the loop and is used afterwards. `Handshake` stops there (`GoWild`), and
  the case is reached.
* `server.c:696-709`: `on_init_message` uses the client after `new_client_fn`;
  if the application closes it there, it has been freed. `Handshake` lets the
  application make no calls within this callback.
* `auth/common.c:42`: an RFB 3.3 client is refused with the word 1, which as a
  security type means None; RFC 6143 has 0 for a failure.
* `server.c:303`: the security types are computed for the first client and kept.

### Workers and encoders

* `zrle.c:426`: as many ZRLE clients as workers can occupy the pool with frame
  jobs that wait for deflate jobs. With two clients and the two workers that the
  encoder asks for, `Deadlock`, the exception of `FramesEncoded`, is reached.
* `parallel-deflate.c:128`: the list is sorted by plain comparison. After a wrap
  within one rectangle new chunks are sorted in front of old ones and the flush
  waits for ever: `Wraps`, the exception of `SyncReturns`, is reached. Safety is not
  affected, as the theorems show.
* `compositor.c`: a job that could not be started has used its number, and
  `compositor_destroy` waits for it for ever (`Lost` in `DestroyReturns`); a
  composite that an encoder holds longer than its compositor lives unlinks its
  side data from a list head that was freed (line 58, the variable `touched`); if
  there is no memory for side data the frame is leaked.
* `v4l2m2m-impl.c:360`: the packet callback may destroy the encoder, which then
  queues its buffer again; `ffmpeg-impl.c` says that its callback "might destroy
  the encoder object" and is prepared. `fault`, the exception of `Lifetimes`, is
  reached in `MCEncoders`.
* `server.c:2879`: a dropped frame was deflated, but is not sent: the client's
  zlib or H.264 stream misses it. `Decodable` fails with
  `DropsFrames = TRUE`.
* `open-h264.c`, `tight.c`: damage that lies only in a gap between displays gives
  a frame barrier of zero, or a frame without rectangles, which is asserted not
  to happen. An FFmpeg encoder that makes an empty packet and a V4L2 encoder
  without a free source buffer leave the frame unfinished (`lost`).
* `tight.c`: the grid is kept when sizes change but the total width and the
  number of framebuffers do not; a tile whose JPEG failed is sent with size 0;
  `self->pts` is reset after a callback that may have set it (line 573).
* `open-h264.c`: the flag that tells the client to reset its context is 0 and is
  never seen.

### Streams and messages

* `ws/framing.c:123`: the mask index starts at 0 for every piece of a payload, so
  a frame that is read in two pieces is garbled unless the first is a multiple of
  four (`Altered`).
* `ws/ws.c:145`: a frame's header that arrives in pieces is not parsed, but its
  length may have been stored, and the next read takes the header for payload. A
  continuation that follows a ping or pong within a message is taken for more of
  that. `ws/http.c:439-448`: a request whose empty line has not arrived is taken for
  a whole one as soon as it has a key, and what is left of it is parsed as frames. In
  each of these the parser has lost its place (`lost`).
* `ws/ws.c:249-251`: the head and the payload are two requests; a callback that
  runs between them sends in the middle of a frame. The answer to a ping whose
  payload comes in pieces is queued piece by piece, and a message that is sent
  meanwhile lands inside of the pong (`torn`).
* `ws/ws.c:172`: a control frame, or one of length 0, ends the read loop although
  frames behind it are in the buffer; nobody announces them. A text frame is
  dropped. `stream_ws_chained_exec` frees its data although it may be run again.
* `tcp.c:131`: the flush goes on with its queue after a callback has closed the
  stream and freed the requests.
* `gnutls.c`, `rsa-aes.c:97`: what is left inside of the stream after a read is
  not announced by the socket. An RSA-AES message larger than the buffer is never
  complete. A failed TLS handshake stops the handler without closing.
* `server.c:1998`: the inner loop of `check_desktop_layout` increments `i`: with
  two displays that are valid and distinct it does not return (`hung`).
* `server.c:2406`: a client that goes on sending while it is blocked by a fence
  fills the buffer and is dropped. A client for whose cut text there is no memory
  (line 1642) is closed; the model has memory. A `SetEncodings` of more than 1023
  entries does not fit at all. An incomplete message uses up
  `must_block_after_next_message`.
* clipboard: an empty text, or one that cannot be compressed, leaves an earlier
  notification standing.

### Pixels, displays, text

* `pixels.c:503`: big-endian formats are mirrored bit by bit; it is right only
  for channels of whole bytes, and the run is restricted to those. A compact
  pixel of a 32-bit format with a depth of at most 16 has two bytes, RFC 6143
  says three.
* `cursor.c:88`: the rows of the mask are found as if pixels had four bytes; in a
  format with two, only the first row is right.
* `display.c`: damage of the old place and size of a display is not reported.
  A display that is moved, resized or turned, and put back before the client has
  taken the new layout, leaves old pixels, as what was fed meanwhile was damaged
  elsewhere, and so does one whose frame is turned at the same size. An update that
  is composed between the move of a display and its next frame shows the old frame
  where the layout says the new one is. These are the three cases of `astray`. The
  area of a removed display stays until something else is damaged there; an added
  one holds up updates until it is fed. Damage outside of the frame makes the
  refinery index beyond its hashes.
* `compositor.c:183`: a display that is scaled is blended by a bilinear filter. If it
  is shown larger than its buffer is, a pixel of the buffer is blended into
  pixels of the desktop that are not in its damage: with a width of 2 shown at 4,
  pixel 1 shows the buffer's pixels 0 and 1, and the damage of the latter is 2 and 3.
  `DamageShown` asks there for the pixels that it is the main part of, and
  `NoStalePixel` for none (`IsEnlarged`).
* `region.c:39`: the scaling factor is a rounded double: 100 scaled by 28/100 is
  28.000000000000004, which is rounded up, so that damage is one pixel outside of the
  display (`Margin`).
* `frame.c:475`: the overlap test compares vertical coordinates the wrong way
  round and looks at the first pair, so that it is never true. The assertion that
  composites start at zero can fail when the display there is removed.

## 7. Not modelled, and the plan

Left out: `xxhash.h` and `sys/queue.h` (third-party), `nvnc_rate_pixel_format` and
names of formats (a table of preferences), key tables, logging, PNG input, the
examples and benchmarks; the arithmetic of the bandwidth estimate (floating
point; `FbUpdate` lets it hold back any update); listening sockets (a straight line
of system calls); the states of the HTTP lexer (`Streams` has where the header ends);
cryptographic primitives, GnuTLS, FFmpeg, GBM and V4L2
(external); hash collisions of the refinery; `exec_and_send`, which fills a
request as it leaves the queue.

The plan:

1. Several clients after the handshake in one model: `LIST_FOREACH` over the client
   list while updates close clients (`server.c:3031`), and the pipelines of others in
   the nested loops of `client_close`. `Handshake` has the list and the loops,
   `FbUpdate` one client's pipeline.
2. A proof of `Decodable`: `Safe` has the jobs and back ends it needs; what is
   missing is what the peer has received.
3. A proof of `NoStalePixel` for clients that are not `astray`.

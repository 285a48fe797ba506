# Platform_RTE: a TLA+ verification of the runtime's redundancy core

Platform_RTE is a C runtime environment for safety-related, redundant
applications.  An integrator supplies the operating-system functions through
"OSAdapter" tables; the runtime supplies the application life cycle, watchdogs,
redundant links, voting and the decision which of two sites is ONLINE.  The
modules here model the parts whose correctness depends on orders of events that
tests can hardly produce, check them with TLC on small instances and prove the
most important results with TLAPS for every value of the constants.

## 1. Inventory

### Components, their state and how they interact

| Component | Source | State it keeps | Operations | Modelled in |
|---|---|---|---|---|
| site role policy | `redundancy/site_role/rte_site_role_policy.c` | none (pure) | decide, timing predicates | `SiteRolePolicy` |
| site role service | `redundancy/site_role/rte_site_role.c` | role, link, what was last heard of the counterpart and in which cycle, confirmation, tie-break count, standby health | init, start, execute, service_link, sync_standby, on_takeover_confirm/token, note_lost_contact, flush_faulted, check_sibling, shutdown | `SiteRole`, `SiteRolePair` |
| dual negotiator | `redundancy/dual/rte_dual_negotiator.c` | own and peer state, timestamps | init, execute | start-up election in `SiteRolePair` |
| dual channel | `redundancy/dual/rte_dual_channel.c` | per link up/down, status, one pending DATA and one pending STATE | send, heartbeat, receive, STATE frames | `DualChannel` |
| message channel | `redundancy/dual/rte_dual_msgchannel.c` | next and expected sequence number | send, receive, resync | `DualChannel` |
| vital message | `redundancy/checksum/rte_checksum.c` | the CRC table in use | crc64_init, crc64, create, verify | `Checksum`; by effect in `DualChannel` |
| watchdog | `redundancy/watchdog/rte_watchdog.c` | a pool of slots: allocated, active, fired, deadline | manager init/shutdown, create, start, stop, kick, destroy, tick | `Watchdog` |
| application manager | `app/appmanager/rte_appmanager.c` | life-cycle state, counters, shutdown flag, cycle signature | run, mark, request_shutdown, reset_state | `AppManager`; its cycles in `Rendezvous` |
| checkpoint rendezvous | `redundancy/checkpoint/rte_checkpoint.c` | which channels confirmed, round, budget | rte_channel_checkpoint | `Rendezvous` |
| voter, cross comparator, channel | `redundancy/{voter,cross_comparator,channel_link}` | registered channels, their health, the responses of one vote | init, register, send, receive, vote_buffers, execute, set_healthy, destroy | `Voting` |
| setup-phase lock | `utils/lifecycle/rte_lifecycle.c` | one flag | lock, unlock, check_setup_allowed | `Lifecycle`, `AppManager`, `Watchdog` |
| safe state | `utils/safestate/` | one handler per level | register, enter | `Oal`; as a halt in `Watchdog`, `AppManager`, `Voting`, `Rendezvous` |
| election | `redundancy/election/rte_election.c` | winner, own state | init, execute | `Election` |
| state transfer | `redundancy/state_transfer/` | registry of fields | register, encode, decode | `StateTransfer` |
| redundancy configuration | `redundancy/config/` | active configuration, capability hook | load, set_active, find | `RedundancyConfig` |
| channel service | `redundancy/channel_service/` | resolved and opened flow | setup (by name, by id), read, send, close | `ChannelService` |
| safe channel | `redundancy/safechannel/` | open links, engine over them | open, send, receive, status, close | `SafeChannel` |
| OS adapters, IPC, log | `oal/` | registered adapter tables, the objects made through them, the log level | register, register_all, one wrapper per call | `Oal` |
| protocol adapters | `oal/protocol/` | socket, its operations, the peer | open, send, receive, close | `Protocol` |
| cast, buffer, string | `utils/` | none | pure functions | `Casts`, `Buffers`, `Strings`, driven by `Utilities` |

The application calls `rte_appmanager_run()`, which calls the application's
stages in every cycle.  From there it calls `rte_site_role_execute()` (which
sends and receives through a dual channel, which in turn sends through one
message channel per link), feeds its watchdogs and calls the watchdog tick, and
at the end of a cycle meets its counterpart in a checkpoint over a voter.
Callbacks run the other way: `on_change` tells the application its new role and
makes it renumber its cycles; a watchdog's `custom_action` runs inside the tick.
A signal handler, a timer callback and a background task act at any moment.

### What is hard here

* Two sites that only share a link which loses, delays and replaces frames, and
  that crash, reboot and renumber their cycles, must not both be ONLINE, and one
  of them must be, in the end.
* "How long ago" is a difference of cycle numbers, and the numbers may restart.
* A send over redundant links blocks on one link after the other while the
  counterpart does the same; acknowledgements come late, twice or from an
  earlier incarnation.
* The watchdog tick may interrupt the calls it supervises, its reactions call
  back into the service, and its clock may fail.
* `run()` keeps one state for the process, and application code that it calls
  may call it again.
* The nodes of a checkpoint exchange arrivals, not requests and replies: what
  one sent for itself is what confirms the other, in a round of its own.
* Channels change their health while a vote polls them one by one.
* An open takes several steps of the layer below, each of which may fail, and the
  setup phase may end between any two of them.
* Numbers at the limits of their widths are cast, printed, parsed and read from
  configuration files.

`PROJECT.json` lists the hazards one by one with their lines and the properties
that cover them.

## 2. Modules

`SiteRolePolicy` holds the policy as pure operators: one named predicate per
rule (`BothFaulted` ... `FollowSibling`), `FirstRule` in the order of the code,
and `decide` with the readiness test.  `SiteRole` holds one channel: the C
structure as a record, and one operator per C function that takes the record
and returns the next.  `SiteRolePair` composes two channels: processes that
boot, settle their first role in the startup negotiation, run cycles over an
open link, a reconnected one or none, read the link on the fast tick, push
snapshots, flush a FAULTED notice and crash.  The inter-site link keeps one
unread frame per direction, as the dual channel's slot does; whether a send is
delivered and acknowledged, and whether a receive finds the frame, is open
until the system is `stable`.  A boot draws its startup timestamp from `Stamps`,
any that the host's own clock may give: the clocks of the two sites have nothing
to do with each other, and a rebooted host may count from zero.  `in_order`
remembers whether a channel booted with a timestamp that wins against a
counterpart which already ran or had heard from it.  `hist` records what really
happened, in executed cycles; both are read by the properties only.

`DualChannel` models two endpoints at the granularity of frames: one action
transmits on a link, one reads one frame from the link the call has come to, and
so on; a call in progress is the record `call`.  The network keeps order per
link and may lose, repeat, delay, corrupt or misdirect a frame.  `accepted` and
`last` are history.

`Watchdog` models the pool, with `start` and `kick` split at the store of the
deadline, and the tick split at every slot it looks at.  Time is relative: a slot
holds the time left, so the clock may run for ever in a finite model.  `quiet`
is history.  With `PREEMPT` the tick may begin inside a call of the application.

`AppManager` models `run()` by the operation it has reached (`pc`).  While an
operation executes the application may mark checkpoints, call setup-only
constructors and call `run()` again, which suspends the outer run on `stack`.
The signature is the set of origins of its marks: "this cycle" or "before".
The beginning of `run()` is two steps, since a signal handler may act after the
state is INITIALIZING and before `g_shutdown_requested` is cleared
(`flags_reset`).

`OrderedLinks` is the abstract specification of a link: sends that were made,
taken in at most once and in order.  `DualChannel` implements it without
resynchronisation (`ImplementsOrderedLinks`), with the number of calls made as
the number sent.

`Rendezvous` composes the cycles of several nodes with `rte_channel_checkpoint()`,
split at every send, receive and round.  A node's path through a cycle is the
id of its checkpoint; `call` and `used` tell calls apart for the properties
only.  The model has no clock: a budget may be spent after any round.

`Voting` models the voter and the cross comparator as one engine with a
strategy, since they differ in the capacity, the quorum and how two responses
are compared.  A vote polls one channel per step; the integrator's comparison
is the constant `Compare`.

`Casts`, `Buffers` and `Strings` are pure operators; `Utilities` is a caller that
chains them on one number, one text or one message.  `Checksum` computes the
real 64-bit CRC, with a bit set for a register, over a short message that the
network damages.  `Election` and `StateTransfer` are the two small services,
each with several parties.

`RedundancyConfig` holds the scanner over a document of tokens and the active
configuration; `ChannelService` adds the service that reads it.  `SafeChannel`,
`Oal` and `Protocol` model opens, registrations and handles, one failing step at
a time.  `Oal` describes every seam by one table (what makes an object, uses it,
gives it back, and what is for setup only) because the wrappers differ in nothing
else; a bundle is registered seam by seam and passes over its NULL members.  In
`Protocol` a table of socket operations may lack the calls for a connected socket,
and a UDP endpoint then falls back to `sendto()` and `recvfrom()`; a PEER endpoint
without a port knows no peer until it hears one.  `Lifecycle` is the setup-phase flag these services share.

`MC*` modules give the constants of the runs.  `MCAlgorithms` and `MCServices`
each join four parts that share no state but the setup lock: `part` says
which one a behaviour takes up, so the state space is the sum and not
the product of theirs.  `*_proofs` hold the theorems.

## 3. Runs

| Run | Shows | Bounds |
|---|---|---|
| `site_disturb` | types; silence never promotes; a yield is to a live peer; a takeover over an open link is fresh; never both ONLINE without a fault or a confirmation, unless a timestamp is out of order | windows of 1 cycle, 3 cycles, three boots, any one disturbance (a crash included) besides the link's own losses and delays |
| `site_live` | the pair settles on one ONLINE site | two of crash, fault and confirmation, cycle numbers wrap at 5 |
| `dual_links` | a reported delivery is one; each link in order | two links, 2 + 1 calls, two disturbances of any kind but a restart |
| `dual_live` | with resync every later send is acknowledged | one link, sequence numbers modulo 4, a restart, a loss or a late answer |
| `watchdog_tick` | no expiry missed or early; an armed watchdog never goes dead | two watchdogs, timeout of 2, a reaction may take 1, the tick may interrupt a call |
| `appmanager` | setup lock, signature, error threshold, shutdown | two configurations (everything optional, endless; mandatory only, two cycles), one nested run |
| `rendezvous` | who passed was confirmed on its own path; retries feed the watchdog; every call ends; a halt spreads | two nodes and a peer that is down, two paths, 2 rounds (64 in the code), 2 arrivals under way per link |
| `voting` | agreed means a quorum and no quorum is missed; only a difference halts | three channels (symmetric), three values, a tolerance as comparison, seven configurations over all strategies |
| `algorithms` | numbers, texts and messages are exact; damage is detected; one winner; a standby holds one moment | integer types of 1, 2, 3 and 6 bits, texts of 3 characters, one payload byte, three nodes, two fields |
| `services` | configuration sound and as written, channel by id, nothing left open, whole bundle, no dangling handle, frozen while locked, answers go to the peer | 70 documents, numbers wrap at 8 and ports at 4, three links, two adapters of which one lacks slots, three bundles (complete, without `fsou`, four members), two socket tables of which one lacks slots |
| `site_clocks` | a documented statement that the code does not keep (section 5) | one crash, three boots, each with either of two timestamps, 3 cycles |
| `rendezvous_stale` | a documented statement that the code does not keep (section 5) | as `rendezvous`, calls told apart modulo 4 |

The bounds are small because each hazard needs few steps once its window is
small: the windows of the policy (2, 3, 6, 10 and 120 cycles in the code) are
constants with the one relation that matters, `BOTH_STANDBY_CYCLES >
ANSWER_WINDOW + 1`, as an assumption, so that an instance with windows of one
cycle meets every boundary from both sides within four cycles.  The counters
that wrap in the code wrap in the models too, at a few instead of 2^32.  The
integer types keep their relations: narrower than, as wide as (`size_t`) and
wider than each other, signed and unsigned, so every boundary of a cast is
enumerated; texts of three characters pass the maximum of every type.  Three
channels are the fewest with a 2-out-of-3 majority and a comparison that is not
transitive.  Two arrivals on a link are the fewest that leave one over.  Two timestamps give
every outcome of their comparison, a tie included; the passing runs fix WEST's and let
EAST's win or tie, so that a reboot of either site may be in order or not.  In them the
application always reports itself ready; the theorems of section 4 hold for a
readiness that changes at will.  Deadlock
is checked in the rendezvous runs only: elsewhere a site whose boots are used up, an
endpoint whose calls are used up, a process in the SAFE state and a caller that is
done may stop.

For every property of a passing run `PROJECT.json` names a mutant: an operator
beside the definition (marked "Mutant") that changes it as a plausible bug
would, and with which TLC finds the property violated.

### Fairness

* `SiteRolePair`: disturbances end at some point (`Stabilise`), and then the
  cyclic executives of both sites keep calling `execute` with the same period,
  so the cycles alternate (`WF` on `CycleRuns`, which only the execute actions
  satisfy).  This is the operating assumption of the service.  Without alternation one
  site could run any number of cycles per cycle of the other, and every window
  of the policy would be meaningless.
* `DualChannel`: disturbances end, then both applications go on with the calls
  of `rte_site_role_execute()` in its order, and a wait ends by its timeout.
* `Watchdog`: the integrator calls the tick periodically (rte_watchdog.h makes
  that the integrator's duty); strong fairness because the tick is disabled
  while another runs; time passes; callbacks return.  An interrupted call
  comes to its store when the ticks let it: strong fairness too, since a tick
  disables it again and again.
* `AppManager`: the operation that executes returns.
* `Rendezvous`: every operation that a node's cycle calls returns, and a cycle
  whose stages can succeed does at some point; nothing is assumed of messages,
  of the clock or of reboots.

## 4. Proofs

`SiteRolePair_proofs` proves, for every value of the windows, thresholds and
bounds that the named assumptions allow:

* `TypeCorrect`: `Spec => []TypeOK`, from one lemma per operator of `SiteRole`
  (what it returns is again a `ChannelState`).
* `SilenceNeverPromotesHolds`, `YieldOnlyToLivePeerHolds` and
  `LinkedTakeoverIsFreshHolds`.  The properties speak about how many cycles have
  really passed (`hist`), the code compares stamps.  `StampInv` ties the two
  together: as long as the application has not restarted its counter, a
  stamp that the code would accept as fresh belongs to an event which is at most that
  many executed cycles old, or is the zero stamp of a fresh numbering.  This is
  what makes the properties inductive; the counter's wrap, a promotion that
  renumbers and the fast tick are the cases that need it.
* `NeverBothOnline`: `NeverBothOnlineUnprovoked`, for any set of timestamps the
  hosts may draw.  Two conditions are part of it.  No channel boots with a timestamp
  that wins against a counterpart already engaged (`in_order`, in the property);
  `site_clocks` shows that it is needed.  And the applications restart
  their own cycle numbering rarely enough (`FewRenumberings`: the renumberings plus
  one, times the answer window, stay below the tie-break's count; with the code's
  windows of 2 and 6 cycles that is at most one).  That condition is sharp: with one
  renumbering more TLC finds two ONLINE sites, because WEST, which has heard nothing,
  takes its own zero stamp for a fresh answer in the first cycles of every
  numbering and counts them towards the tie-break.  The invariant `OnlineInv` says:
  a channel is ONLINE only once it is settled (`StartInv`); what a starting channel
  has heard is its counterpart's timestamp, or that of an earlier process which
  decides no differently (`BeaconInv`); EAST is ONLINE only if WEST is down or has a
  larger timestamp, and a WEST with a larger timestamp than an EAST which is ONLINE
  or still negotiates has heard nothing of it but snapshots, and none but these is on
  its way (`EastFirst`, `Untold`); and nobody holds a FAULTED notice or a
  confirmation, nor is one on its way (`CalmInv`).

`AppManager_proofs` proves `TypeCorrect`, `LockedExactlyWhileRunning`,
`SignatureOfThisCycle` and `NoCycleAfterThresholdHolds` for every set of
configurations, counter bound and nesting depth.  The inductive invariant adds
to those what ties the phase to the state: `StateTellsPhase` (each value of pc
belongs to its life-cycle states), `ActiveOnlyInLoop` (marks count only inside
the loop), `CycleMarks` (inside a cycle all marks are of this cycle),
`Configured`, `ThresholdAsks` (at the threshold a shutdown is requested) and
`NoErrorsAtStart` (the reset of the flags drops no request of a threshold).

`Watchdog_proofs` proves `TypeCorrect`, `NoneMissed` and `FiresWhenQuiet` for any
pool, any timeouts below a largest one, and ticks called from the loop or interrupting
it.  The inductive invariant adds `ScannedCountOn` (a slot the scan has passed counts
on, by the clock the tick read, or is just being started again), `DeadlineIsDue`
(the time left is never less than the timeout minus the quiet time, except inside a
start or kick), `NoTimeInCall` and `CallbackOnlyInReaction`.

`Rendezvous_proofs` proves `TypeCorrect`, `PassedOnPath` and `KeepsKicking` for any
nodes and wiring.  Every confirmation of a call in progress carries the id of the call
(`ConfirmedOnPath`), and the attempts since the last kick are bounded by the loop
index (`AttemptsOfRound`); the loop index is a channel because the parameter tests
of the call passed (`CallIsSound`).

`Voting_proofs` proves `TypeCorrect`, `VoteExact` and `HaltsOnDisagreement` for any
number of channels, values and quorum.  The comparison is any relation that finds a
value equal to itself (`VotingAssumption`): a callback that denies this could not even
agree with a copy.  Symmetry or transitivity is not assumed.  The groups of the
algorithm are a recursive function; that it exists is proved by extending it index by
index (a least index without one is impossible), and that the largest group decides
follows from what the groups have in common.  The second half carries a vote through
the steps of a call (`PollInv`, `VoteInv`).

`DualChannel_proofs` proves `TypeCorrect` without condition, and two results within
the `Horizon`: no resynchronisation, no restart of an endpoint, and fewer calls of
both endpoints than sequence numbers (2^32 in the code).

* `DeliveryIsTold`: a link that the status of a send reports up has delivered it.
* `LinksAreOrdered`: `DualChannel` implements `OrderedLinks`, step by step.

The horizon is needed: once a counter wraps, an old frame that is still under way has
an acceptable number again; a restart sets the counters back to the numbers of such
frames; and a resynchronisation accepts any number.  The invariant `LinksInv` says of
every direction of a link that the frames which can still be taken in have
numbers in the order of their sequence numbers, below the sender's counter, and newer
than what was taken in if their sequence number is still expected (`Orderly`); that a
counter is at most the number of calls made plus answers given, so that it does not
wrap; and, while a send waits, that only its own frame carries the sequence number
waited for, and an acknowledgement of it means it was taken in (`WaitInv`).  TLC
found `LinksInv` to hold on the instance of `dual_links` before it was proved.

`Services_proofs` proves eight results about `MCServices`: `TypeCorrect`,
`NothingStaysOpen`, `BundleRegistersAll`, `HandlesDoNotDangle`, `LockFreezes`,
`AnswersReachPeer`, `ActiveConfigSound` and `SetupReachesChannel`, for any number of
links, socket tables, hosts, adapters and documents.  Each part has its own invariant
(`ProtocolInv`, `SafeChannelInv`, `OalInv`, `ServiceInv`, `ConfigInv`, `ReachInv`): how
far an open has come tells which resources it holds, a bundle that is still running
has left its adapter in every member it has passed (`BundlePassed`) and none outside its
members (`NullMembersSkipped`), and the stored peer of a UDP endpoint is the last sender, or
the configured peer on a connected socket (`PeerIsLastHeard`).

* `ActiveConfigSound` is about the scanner on any text at all, sensible or not.  The
  passes of `parse_channels_array()` are a recursive function; `LoopResult` gives its
  values, `PassFacts` says of each of them that it holds at most as many channels as
  there was room for, `ParsedIsSound` puts the checks of the loader together, and
  `ConfigInv` keeps the result through replacing, clearing and setting again.
* `SetupReachesChannel` needs `ReachInv`: what the storage keeps between the setup by
  id and the open is the name and the role of the channel that was asked for,
  whatever has become of the configuration since.

`Algorithms_proofs` proves five results about `MCAlgorithms`, all from one invariant with
one part per component (`AlgorithmsInv`).

* Loops.  What a loop of the code computes is a recursive function in the model, and the
  provers know nothing of those.  `LeastElement` turns the well-foundedness of the naturals
  into a least counterexample, `EveryIndex` and `EveryNumber` use it as induction over a set,
  `LoopResult` and `RecursionResult` show with them that a function given pass by pass
  (or by division, as the digits of a number are) exists and satisfies its own equations.
  What the loop is for is then an induction over the set of good indices.
* `NumbersExact`: conversions, checked arithmetic, printing and parsing are exact or
  refused, for every widths in the order of C's.  TLC enumerates types of 1, 2, 3 and 6 bits;
  the theorem has the real ones.  `EveryConversionCovers` is the heart of the casts: the
  comparisons in the nine tables of `Casts` cover every end of the destination that the
  source can pass.  `AccumulateExact` shows that the test before a digit is taken in
  refuses exactly the numbers above the limit, `TextReads` that what is printed denotes
  the number.  `NumInv` is what an exact answer keeps.
* `LayoutKept`: `SplitInv` says that the tokens so far and their delimiters are the text up
  to the cursor (with one delimiter too many only at its end), `WordsInv` that every word
  lies where it was written, `Sound` that the buffer is inside its storage.
* `SameWinner`: `WinnerFacts` says that the loop returns a candidate no other one comes
  before.  The order of `Before` is total on candidates with different ids, so the order of
  a list does not matter.
* `OneMoment`: `EncodedForm` and `DecodedFields` say which bytes belong to which field, from
  the running offset alone; `BufferIsEncoded` says whose state the buffer holds after it was
  cut short or encoded again.
* `TypeCorrect`: the remaining part, `ChecksumInv`, says that a message damaged in any way keeps
  its size, and that table and register keep to 64 bits.

Assumptions.  Every theorem rests on the named `ASSUME` of its component only, which
TLC evaluates in the runs: constants have their types, a threshold that orders
windows (`SiteRolePair`), channels of a node that lead to different other nodes
(`Rendezvous`), one to four links (`DualChannel`), a largest timeout (`Watchdog`), names
for "none" that are not among what they are none of (`Protocol`, `Oal`, `Voting`), integer
types each wider than the one before, `W64` at least twice `W32`, and `size_t` as wide as one of them
(`WidthAssumption`), a buffer with some room and a terminator that is not a character
(`BufferAssumption`), a base of at least two for hexadecimal (`HexAssumption`), payloads of
octets (`ChecksumAssumption`), finitely many nodes with numbers as ids and time stamps
(`ElectionAssumption`), fields of at least one byte (`TransferAssumption`), documents that are
texts of tokens (`ConfigAssumption`), a resolver that answers a role (`ServiceAssumption`).
`NameAssumption` only says that the empty name is a string, for which the provers have no rule.

Only model-checked:

* all liveness (`SettlesOnOneOnline`, `ResyncRecovers`, `ArmedReacts`,
  `ShutdownHonoured`, and the rendezvous' termination), which is out of the
  prover's reach;
* `AcceptedIsAsSent`: whether two changed bits or one changed byte pass the CRC depends on the
  polynomial and on the length of the message (at the polynomial's period two changed bits do pass),
  so there is no result for every length; TLC computes it for the real tables;
* the second half of `LoadedIsSound`, `LoadedAsWritten` (the first, `ActiveIsSound`, is
  `ActiveConfigSound`): it is not true of every document, since the scanner does not follow the
  nesting (a channel with an entry of its own called "quorum" is taken for the top level's).
  It holds of the documents of the run, whose keys are those of the schema.

## 5. Where code and documents disagree

`rendezvous_stale`: `rte_checkpoint.h` says that a stale or wrong-cycle reply is
rejected, because the id is the sequence number of the message.  The application
manager makes the id from the path of the cycle alone, so two cycles along the
same path have the same id; and an arrival is sent again in every round, so some
are left over.  A leftover arrival of an earlier call confirms a later checkpoint.
What holds instead is `PassedMeansPeersOnPath`: the peer did take this path, in
this cycle or an earlier one.

`site_clocks`: ADR-040 says that two ONLINE sites are excluded.  The startup
negotiation lets the smaller timestamp win, also against a counterpart that runs and
is ONLINE, and `rte_site_role_start()` takes the timestamp from `rte_timer_now()`, the
monotonic clock of its own host; `rte_dual_frames.h` makes no claim that the clocks of
the sites agree.  A site that reboots with a timestamp below its counterpart's (or
equal to it, for WEST) comes up ONLINE beside it, without a fault or a confirmation.
Rule 5 then lets one yield, if it had lost contact, or only reports it.  What holds
is `NeverBothOnlineUnprovoked`, with timestamps in order, and `SettlesOnOneOnline`
with any.

Six more disagreements have no run of their own; the properties next to them are stated
so that they say what does hold:

1. REQ-SITEROLE-004 (`SRS.dox:658`) wants a confirmation expired when the cycle
   counter restarted after it.  `rte_site_role_takeover_allowed()` sees that only
   while the counter is below the stamp (`renumbered` in `PromotionIsJustified`).
2. A STANDBY channel without a link does not update the warmth of its snapshot,
   so a confirmed takeover hands over one that is older than the data timeout.
   Over an open link it never does (`LinkedTakeoverIsFresh`, proved).
3. Two endpoints that send at once can wait for each other on two different links
   and report both down although nothing failed (`rte_dual_channel.c:240`, against
   the comment at line 447).
4. After a link is reopened the sequence numbers repeat, and an acknowledgement
   of the previous incarnation confirms a new send; `dual_links` has no restart
   for that reason, and `dual_live`, which has one, asks for recovery only.
5. `rte_watchdog_start()` arms before it stores the deadline; a tick from a timer
   callback in between fires the watchdog at once.  `FiresOnlyWhenQuiet` excepts
   exactly this (`Interrupted`).
6. `rte_appmanager.h:561` says of a shutdown request that the execute loop will
   terminate after the current iteration.  `run()` writes the state INITIALIZING and
   clears `g_shutdown_requested` four lines later (`rte_appmanager.c:268`); a request
   of a signal handler in between is lost, and an endless application runs on.
   `ShutdownHonoured` excepts exactly this moment (`pc = "resetting"`).

Further observations, for which there is no run: a FAULTED notice that arrives
after its sender rebooted can make both sites ONLINE until rule 5 reports or
resolves it; a fault that passes can leave a dual ONLINE that is only reported
(`SettlesOnOneOnline` names that exception); `lost_peer_while_online` survives a
promotion and a renegotiation; the checkpoint's voter is read twice per cycle, so pausing
it in between counts as a failed stage; a failed `execute()` skips
`on_checkpoint_result()`; `rte_watchdog_start()` succeeds after the manager was
shut down, but nothing will fire; with two links an application may read the
same payload once per link; a voter with a quorum of three and a comparison that
is not transitive agrees although the members of the group do not all agree with
each other (`GroupsAreMutual`); a number of the configuration that wraps is taken
as what is left of it; two channels of one name are mixed up by
`rte_channel_service_setup_by_id()`; a storage that is set up again without a close
leaks its flow; a snapshot whose registry has another layout, or whose decode function
refuses in the middle, leaves the standby with fields of two moments
(`StandbyHoldsOneMoment` excepts both and is about the short snapshot); a UDP endpoint whose `connect()` failed answers the last sender,
whoever it was; the table of the ISO polynomial has only 32
different entries, so under it some changes of a single byte pass the CRC
(`AcceptedIsAsSent` is about the ERTMS and the XZ table).

## 6. Abstractions

The application state in a negotiation frame, names, log lines, diagnostic
counters and parameter checks that change nothing are left out.  A call that is
refused changes nothing and is not a step.  The role of the negotiator's states
after start-up is diagnostic and left out.  In `DualChannel` the CRC is
what it decides: a corrupted frame is never intact; `Checksum` checks that for
one byte or two bits.  Start-up has no deadline of its
own: a negotiation that times out is a `Crash`.  A startup timestamp is at
least 1: a host whose clock fails at the start would draw it when the negotiator
is initialised.  In `SiteRolePair` the channels
have no A/B sibling yet, so the sibling rules of the policy are translated but
not exercised, and a confirmation is the unauthenticated one.

In `Watchdog` the stores of `rte_watchdog_start()` happen in the order of the
source; the millisecond in which a call reads the clock is the one in which it
stores the deadline.  In `DualChannel` a wait ends without an answer only when
none can come, when both endpoints wait for each other, or as a counted
disturbance ("late"): an arbitrary early timeout would only add the last case
without a bound.

Counters that only diagnostics read (channels, voter, checksum, watchdog) and the
reports of safety violations are left out.  A configuration file is a sequence of
tokens in which a quoted word holds no quote, brace or bracket.  Publish/subscribe
and request/reply are stubs in the source: they test their arguments and the
setup phase, answer OK, or TIMEOUT to a receive, and make nothing; so they do in `Oal`.  In `SafeChannel` the initialisation of a
dual channel does not fail (`rte_safechannel.c:101`): both link limits are 4 and the
handles come from opens that succeeded, so the branch cannot be reached.  A connected
socket brings data of its far end only, whichever call reads it.  A bundle is
registered once.  A
checkpoint is called with a positive `max_delay_ms`.  What is lost by misuse alone
(a flow under a storage that is set up again, a link under a channel that is
opened again) is excepted by name in the properties.

## 7. Not modelled

The A/B sibling of one site and the authenticated takeover token: four channels
over three links are too many for one run.  The negotiator's states after
start-up, which only diagnostics read.  The text of log lines and the builder of
log fields, `rte_safe_ptr`, the names of status values and the version: formatting
and constants.  Examples, tests and tools.  What lies behind an OSAdapter is not part
of the repository.

## 8. Plan

What is left, in the order of what it would say:

1. The A/B sibling of a site (`check_sibling`) as a third kind of channel in
   `SiteRolePair`, with the link between siblings reduced to what `FollowSibling` reads.
2. The authenticated takeover token and the change of its challenge.
3. The conditions on a document under which `LoadedAsWritten` holds of every text.

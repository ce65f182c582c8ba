# Arkade Poker: specifications, model checking and proofs

Arkade Poker plays one heads-up Texas Hold'em hand between two clients without a
dealer. The cards are dealt by a verifiable shuffle, the money is held in a
covenant output of the Arkade service, and every move is an Arkade transaction
that spends the covenant output and recreates it, or pays it out. This directory
models the parts of the repository in which money, turns, published cards,
recovery, stored games and what the user is shown are decided, checks them with TLC
and proves the accounting with TLAPS.

Contents: [inventory](#inventory), [modules](#modules), [the covenant](#the-covenant),
[agreement of the three statements of the rules](#agreement), [setup](#setup), [peer transport](#peer-transport), [the drivers](#the-drivers), [storage](#storage),
[client and user interface](#client-and-user-interface), [script-event watch](#script-event-watch),
[wallet](#wallet), [runs](#runs-bounds-and-what-they-show), [fairness](#fairness),
[proofs](#proofs), [findings](#findings), [what is not modelled](#not-modelled), [plan](#plan).

## Inventory

| Component | State it keeps | Operations | Interacts with | What makes it correct |
|---|---|---|---|---|
| Covenant builders (`internal/covenant`: `packets.go`, `action_*.go`, `contract.go`) | none of its own: the public state of the hand travels in the packets of each transaction (phase, last action, cumulative wagers, deadline, 18 reveal slots) | one builder per move: deposit, funding, opening, bet (check, call, raise), board reveal, showdown reveal, all-in call, all-in reveal; three terminal builders | game, wallet | money conserved, each seat funds itself, fair payouts, turns alternate, shares published exactly when due, bounded length, never trapped |
| Covenant programs (`program*.go`, `scripts.go`) | none; compiled once per contract | one emulator program per move and street, selected by tapscript leaf and key | run by the emulator service | accept exactly what the builders build |
| Client admission and choices (`game/admission.go`, `cards.go`, `hand_decide.go`) | the accepted hand | admit a live or terminal spend; offer the user's choices | driver, covenant | accept exactly what the programs accept; report the right outcome |
| Driver, journal, recovery (`game/driver*.go`, `hand_reduce.go`, `journal.go`) | durable: an event log; volatile: replayed game, `recovering`, `retried` | prepare, sign, submit, reconcile, observe, abort, restart | wallet, indexer, storage, watch | one signed bundle per output, nothing sent forgotten, saved work decided |
| Setup (`game/reduce.go`, `decide.go`, `setup*.go`, `invitation.go`) | sequence numbers, peer, keys, decks, deadline | four messages between two clients | transport, shuffle | agreement on one contract, no message replayed or skipped |
| Script-event watch (`game/driver_watch.go`, `adapters/subscription`, `adapters/indexdata`, `client/balance.go`) | queue of 64 events, gap flag, one pending hint | attach, hint, overflow, close, reattach | indexer service | every change is noticed in the end, whatever was dropped |
| Peer transport (`internal/nostr`) | pinned peer, seen events, stream | publish, receive, pin | relay | each message delivered once, from the right key |
| Storage (`internal/storage`) | one file per record and a lock file, or one database per wallet and a Web Lock | open, load, append, clear, close | operating system, browser | an intact prefix that holds everything acknowledged, one writer |
| Client lifecycle (`internal/client`) | running session, pending key, the log of all games | open, run, abort setup, clear, next game, close | all of the above | money stays accounted for, one owner per key, games are never discarded by an abort |
| User interface (`internal/ui`) | the model of the screen: generation, snapshot, busy and clearing flags | submit, abort, clear, change wallet, quit | client | an input meets the position it was made for; the user is answered |
| Wallet (`internal/wallet`) | keys; no balances | select funding, prepare, sign, submit, inspect | Arkade services | exact funding, only the saved work is finalized |
| Shuffle, Merkle ranks (`internal/shuffle`, `internal/merkel`) | none | prove and verify | game, programs | cryptographic soundness |
| Adapters, commands (`internal/adapters`, `cmd`) | connections | translation | services, user | I/O |

Where the difficulty lies: two clients, a service, an indexer and a clock
interleave freely; both players can have a valid spend of one output in flight;
any client can crash between two effects; a submission that fails may have
arrived; the rules exist in three independent forms (Go builders, opcode programs
over phase bytes, client admission); the path through the hand (all-in on any
street, first or second to act) determines which shares are due; records are files
that a power loss takes back unless the right directory was synchronized; and the
screen, the session, the driver and the calls of the user are goroutines that see
one another's past. `PROJECT.json`
lists these hazards one by one, each with the properties that cover it.

## Modules

| Module | Content |
|---|---|
| `CovenantState` | the packet state, phases, reveal slots, `Successor` |
| `CovenantBuilders` | each builder as a relation between predecessor and successor; payouts |
| `Covenant` | the state machine: one action per builder, two wallets' ledger, clock |
| `CovenantProperties` | type invariant, safety, action properties, liveness |
| `HandRules`, `CovenantRefinement` | the rules of the hand as an abstract specification; `Covenant` implements it |
| `CovenantTime` | the time each player lets pass (a history variable), and what promptness is worth |
| `CovenantProofs` | TLAPS proofs about `Covenant`: its type, its books, turns, promptness, published shares, the length of a hand, the refinement of `HandRules`; that the three forms of the rules agree, and that nobody is trapped |
| `EmulatorScripts` | the emulator programs as relations over packet bytes |
| `ClientAdmission` | what a client admits, concludes and offers |
| `CovenantAgreement` | the three forms of the rules compared on every reachable output |
| `Drivers`, `DriverProperties` | two clients against the services: saving, signing, submitting, crashing, recovering |
| `DriverProofs` | TLAPS proofs about exact recovery |
| `Setup`, `SetupProperties` | the creator of an invitation and its joiners up to the agreed contract, over a relay |
| `SetupProofs` | TLAPS proofs about `Setup`, and the refinement of `ContractOffer` |
| `ContractOffer` | what setup promises, as an abstract specification; `Setup` implements it |
| `PeerChannel` | what the driver relies on in a transport, as an abstract specification |
| `RelayTransport`, `TransportProperties` | connection, reader, queue and waiting calls of one process; it implements `PeerChannel` |
| `TransportProofs` | TLAPS proofs about `RelayTransport`: the refinement of `PeerChannel`, and limits that suffice |
| `DurableLog` | what saved games promise, as an abstract specification of a family of logs |
| `FileStore`, `BrowserStore` | the two builds of the store: file operations, database transactions |
| `Storage` | either build, and their properties |
| `StorageRefinement` | both builds implement `DurableLog` |
| `StorageProofs` | TLAPS proofs about `Storage`, and the refinements of `DurableLog` |
| `Client` | sessions, runs, calls of the client, and one log of games, which keeps what `DurableLog` promises |
| `UserInterface` | the screen's model and its goroutines over `Client` |
| `ClientProperties` | properties of the two together |
| `ClientProofs` | TLAPS proofs about them |
| `ScriptStream` | the subscription: wire, bounded queue, gaps |
| `Watch` | its two readers, the driver and the balance, and their properties |
| `WatchProofs` | TLAPS proofs about `Watch`: no wakeup is lost |
| `Bundles` | packets, signatures, and the merge of a service's answer |
| `Wallet`, `WalletProperties` | one spend from selection to acceptance (extends `Bundles`) |
| `WalletProofs` | TLAPS proofs that the selection is exact and only the saved spend is finalized |
| `MCSetup`, `MCStorage` | constants and symmetry of their runs; the other runs check a module as it is |

A definition whose comment begins with *Slip* is not part of any model. It is the
form a plausible mistake in the code would give the definition below it;
`PROJECT.json` ("mutants") says which property notices it.

## The covenant

`state` is the State packet plus the reveal packets; `value` the amount of output
0; `contributed` and `received` the two wallets' ledger (not in the code: they
are what the properties are about). Builders keep their names
(`BuildBoardReveal` is `Contract.BoardReveal`). A builder relation `BuildX(s, t)`
contains the checks of the Go function and the successor its `buildLive` call
assembles; `Live` contributes what `livePredecessor` and `buildLive` check of
values. A timeout's maturity is checked by the program (`emitTimeout`), so
`Timeout` refers to that.

Abstractions. A share is the number of its slot and a published share is valid
(the programs and the client verify the proof). Which cards were dealt is reduced
to who wins (`winner`), chosen once in `Init`. Amounts are naturals:
`validateAmounts` bounds all terms so that no sum leaves MAX_MONEY, which
`ValuesFit` confirms. Transaction layout, change outputs and identities are left
out.

Facts worth knowing that the properties state:

- `PromptPlayersNeverForfeit`: a deadline is the previous deadline plus sixty
  seconds, not the time of the move plus sixty seconds. A move after its deadline is
  still valid if it is accepted before the timeout claim, and then leaves the
  opponent less than an interval, possibly nothing. What protects the opponent is the
  claim it had meanwhile. `CovenantTime` adds a history variable: how long
  each player has let the clock run while it could move, or could claim because
  the other was late. Whoever never lets a whole interval pass never forfeits, even if
  the other is late every time. Two exemptions: Player 1 before it has funded, who has
  nothing to lose, and a deposit or funding made after the initial deadline, which no
  client signs (`checkSigningTime`).
- `LifetimeBounded`: the last possible deadline is computable from the terms.
- `ShowdownEvaluation` has no timeout: either player may submit the showdown,
  and `EventuallySettled` relies on the clients doing so unasked.

## Agreement

`CovenantAgreement` takes every reachable covenant output and asks the builders,
the programs and the admission code for their verdict on a large set of proposed
transactions: any phase, last action and wager at its exact value, and correct
moves with a wrong deadline, share set, value or funding. The three predicates
differ on outputs that cannot occur (admission does not recheck the history,
programs check more of the source); on reachable outputs they coincide, which is
what `ScriptsMatchBuilders`, `AdmissionMatchesBuilders` and
`TerminalReadingIsUnambiguous` state; the second also takes each move the client
offers its user, and the third every division of the locked value over payouts worth
something. `CovenantProofs` proves the three for all terms, and for every
transaction rather than the proposals of the run (`OneRule`).

## Setup

`Setup` starts when a session is saved (invitation made or accepted, keys drawn) and
ends where `Drivers` begins. Every message takes four steps with a possible stop
between them: saved as pending (`ShuffleInitial`, `ShuffleFinal`; the key message is
saved with the session), signed into a carrier that is saved
(`PreparePublication`), published (`Publish`), recorded (`RecordPublished`). The
relay keeps what it accepted and may send it at any time, in any order and again
after every reconnect (`Deliver`); nothing is removed from `relay`.

| Model | Code |
|---|---|
| `log[p]` | `setupState` as replay yields it, with the stage |
| `proc[p]` | the driver's process with its `Transport`: pinned peer, cursor, messages retained, whether a publication is under way |
| `Open`, `Ready` | `openTransport`, which every setup effect calls first |
| `Admitted`, `Heard` | `Transport.admit` and the selection by recipient and author in `pump` |
| `Receive`, `Poll` | `receiveMessage` with and without a message; `Receive` includes the admission of the reducer and the abort it leads to |
| `Stop`, `Start` | an error or death of the process; `loadJournal` |

Proofs and key ownership are valid when bound to what the verifier expects
(`Binding`, `over`), so what is checked is that honest clients keep expecting the
same. A shuffle is identified by the number of process stops before it was drawn: drawn
again after a restart it is another one. All parties run this code; several joiners
may hold the invitation. Error returns whose only effect is that the driver stops
(a refused publication, a lost connection, a full queue) are `Stop`;
`RelayTransport` has them one by one. Attaching
the script watch before the final publication is not part of this model.

`OffersOneContract` is the refinement of `ContractOffer`: the deck and deadline
that the creator has saved as final never change, and the joiner takes exactly
that contract or refuses. A joiner who is not the first the creator saves is never
told and waits in `AwaitOpponentKeys` until its user leaves (`Quiet` includes
that end); `OneJoinerProceeds` states that it gets no further.

## Peer transport

`RelayTransport` is the transport of one process, the driver's goroutine that calls it, and
the relay as this process sees it. A message is an author, a number and a body; an author
may send further bodies under one number, which counts as a failure. The limits are constants.

| Model | Code |
|---|---|
| `stream` | the connection: frames under way, frames in the queue between reader and calls, why it ended |
| `transport` | `ready`, the pinned peer, the cursor, the messages retained |
| `game` | durable: messages taken, how many of ours were published, the saved carrier |
| `call` | the effect under way: opened, publishing, acknowledged, receiving, or the process is down |
| `posted`, `stored` | the relay: messages for this process, carriers of this process |
| `Open`, `OpenFails`, `FindsItEnded` | `openTransport` before every effect: a new connection and subscription only where there is none |
| `Prepare`, `WriteCarrier`, `RecordPublished` | the carrier is signed and saved, written, recorded when it was acknowledged |
| `BeginReceive`, `Deliver`, `QuietWait` | `Receive`: the cursor, a retained message, a quiet wait |
| `Read` | the lifetime reader, which ends the connection when the queue is full |
| `Pump*` | `Transport.pump` and `admit`: one frame for the call that waits |

Two promises are in question. `NothingDroppedSilently` is the comment "dropping public
setup messages silently would break ordering/equivocation" (`nostr/stream.go:13`): while a
connection lasts, every selected message is somewhere between relay and driver or of no
more use. `LimitsSuffice` says that the limits do not fail an honest session: two joiners' messages,
answers and closings can fill five places of the queue and two of the retained, of
eight each in the code; with one place less of either TLC finds a session that fails.
`LimitsAreEnough` proves it for eight places and up to five joiners. More joiners at once could
fill the queue, and the creator's process would then stop and subscribe again. `ImplementsChannel` is the refinement:
whatever connections and processes end, the driver is handed one peer's messages in
order, each once, and counts as published only what the relay has, under the one
carrier it saved. `ExchangeCompletes` says that the exchange ends once failures do, unless an
author sent two bodies under one number, which the transport refuses for ever.

What the messages mean is the business of `Setup`. Signatures, encodings, and a `Close` that
runs concurrently with a call are left out.

## The drivers

`Drivers` abstracts the hand to its skeleton, justified by `TurnsAlternate` and
`Successor`: output `k` obliges one player, deadlines are an interval apart, the
last output is anyone's to settle. What it keeps is the control of the driver.

| Model | Code |
|---|---|
| `log[p]` | what replaying the journal yields: output observed, saved spend, finished, aborted |
| `proc[p]` | the process: running, halted by an error, or gone; `recovering`, `retried` |
| `unspent` | the answer of the last inspection, used later and possibly stale |
| `sent` | bundles that left a client; they may arrive at any time or never |
| `accepted`, `indexed` | the service's transactions, and how many the indexer shows |
| `Prepare`, `Sign`, `Submit` | `prepareAction` and the three submission effects of `step`, each with its append |
| `Acknowledge`, `SubmitUncertain`, `RetryFailed` | receipt, error of an ordinary submission, error of a retry |
| `RecoverResume`, `RecoverRetry` | `recover` |
| `SignLost`, `Crash`, `Start` | process death at any point, `restore` |
| `Expire` | `checkSigningTime` returning an error that stops the driver |

An append is atomic with the effect that precedes it except where their separation
is observable: a signature whose append is lost (`SignLost`), and a submission, whose
call and outcome are two steps. `Observe` also forgets bundles for outputs that
were already spent; no service would accept them. Wallet coins are assumed to be
spent by nothing else here, and a submission arrives whole; `Wallet` drops both
assumptions. Hints of the script watch only wake the driver earlier and
are left out (`Watch` has them), as are the private opening and evaluation records,
which spend nothing.

## Storage

`DurableLog` is what the game is written against: `kept` is what was acknowledged,
`seen` what a load would return; an append is attempted, perhaps acknowledged, and
perhaps undone by a power loss if it was not. It speaks of many logs at once, one per
wallet for `FileStore` and the one of the origin for `BrowserStore`, the two builds.

| Model | Code |
|---|---|
| `files`, `disk` | a wallet's directory as programs see it, and as it is on the disk |
| `entry` | whether the directory itself exists, and whether its parent was synchronized since |
| `lock`, `proc` | the advisory locks, and a process with its operation: `Stage`, `Rename`, `SyncDirectory` of an append; `MakeDirectory`, `SyncParent` of `durableMkdir`; `RemoveEntry`, `SyncCleared` of a clear |
| `Die`, `WriteBack`, `PowerLoss` | process death at any point, the kernel writing directory operations back in order, the machine losing the rest |
| `rows`, `next`, `webLock`, `tab` | the database, its `meta/next`, the Web Lock, tabs with a transaction that commits before, or without, being reported |

`RecoveredLogIsIntact`: whatever happened, the records form a loadable sequence, one
that starts with everything acknowledged since the last clear, and a writer that
may still append knows the true end of the log. `ImplementsLog` is the refinement.
Both are conditional on the directory's own entry having been synchronized;
`AcknowledgedStays` is the unconditional promise, which is refuted
([findings](#findings)). `acked`, `confirmed` and `wiped` are history variables.
The contents of records are model values, and the checks of names and sizes are
their validity. Strict durability of the browser's transactions is external.

## Client and user interface

`Client` has one process: a session that runs games one after another
(`Session.run`), the calls `Open`, `AbortSetup`, `ClearSavedGame` and `Close`, each in
the steps between which others run, and the log in which games follow one another.
The driver is what the lifecycle sees of it: it journals, tells, takes inputs,
sends money for a covenant, returns. `UserInterface` is the Bubble Tea model with
the commands (goroutines) it starts; messages of goroutines queue in `inbox` and
`replies` and are handled in any order across kinds. The user does anything the
screen offers at any time.

| Model | Code |
|---|---|
| `run` | `Session` with its driver: phase, game, offset in the log, key ownership; `news` is the update that nobody has read yet, `polled` says that the driver looked at its inputs since its last step |
| `call` | the call of the client under way, between its locks and waits |
| `seen`, `kept` | the log: what a load returns, and what was acknowledged; a record is its kind |
| `stake` | history: money that left for the current game's covenant, or came back |
| `ui`, `readers`, `commands`, `inbox`, `replies` | the screen's model, the goroutines it started, and their messages |

The driver looks for an input between any two steps, and at no other time
(`driver.go:331-342`): `Poll` lets it go on when none waits, `TakeInput` takes what
does. A stale input is rejected, after the outcome too, and changes nothing. A
submission is taken to be on its channel as soon as it is made; that its goroutine may
be delayed is not modelled, nor is the slot between the driver's channel and the
session's (`client.go:302-312`): the driver waits until its update was read.

The log is one of those that `DurableLog` describes. A journal append that succeeds is
`Attempt` and `Acknowledge` in one step; one that fails leaves the record or not. `StartRun` restores the records as they are on the
disk; a power loss directly after a process died, which could take back what the
load returned, is not followed (`load` synchronizes nothing). The kinds of records
are those that `completed`, `currentSession` and `checkUnfundedSetup` tell apart.
An explicit clear by the user gives up what the game holds, as its dialog says.
The records that a failed clear followed by a power loss can bring back are in
`Storage` only. Quitting drops the screen's goroutines. Shuffling, forms, the
funding warning and the balance display are left out.

## Script-event watch

`ScriptStream` is one attachment: what the service has registered and pushed, the
connection that may break, the owner's queue with its gap, the confirmation or
refusal of the filter. `Watch` has the two readers; `Init` chooses one. The driver
attaches before it expects the opponent, queries, waits for a hint or its timer,
relays events into a single pending hint (`Relay`, `Wake`) and checks after a hint
whether the watch is healthy. It ends its watch with each spend it observes.
The balance attaches, fetches coin by coin, reads events, and starts over after a
second when anything failed. A frame is sent only for changes the index already
answers about.

`NoWakeupIsLost` says that a reader which waits without having seen the last change is
about to be woken: the wakeup is there, its goroutine is about to give it, or something that will
make it do so is queued, on the wire, or the end of the stream. Attaching, storing a hint, waking,
draining the wakeup and inspecting may come in any order, and the hint and the wakeup are two
channels. `EveryChangeIsNoticed` adds that the reader gets there. On the opponent's turn it has to
hold without the 250 ms timer, because hints and gaps must suffice; on the user's own
turn there is no watch and the timer is all there is. The waits of recovery and of
deposit discovery use the same primitives and are not repeated.

## Wallet

`Bundles` describes a transaction and its checkpoints as packets with fields and
signatures; `Merged` is what a client keeps of an answer. The services may sign,
reorder the checkpoints, rebuild them in the few fields that are compared loosely, or
return something else. `Wallet` takes one spend on either route (deposit through Arkd,
bet through the emulator) from `SelectFunding` to the record that it was accepted,
with a rival spend of the same sources at any time, an index that lags behind the
service and shows a transaction's marks, body and outputs one after another, inspection query by query, and a
stop or failed call anywhere. Only recovery needs every source shown unspent before it
retries, once. Ordinary progress signs, submits and, after five seconds (here at any
time), submits the same bundle again as long as the index shows no accepted spend, also while a source is pending
(`driver_effects.go:243-305`, `game/protocol.md:310-312`). Arkd refuses such a
submission, which starts recovery, or repeats its answer if it has taken that very spend.

`SpendIsExact` says that the coins are exact or leave admissible change, that a
refusal is justified (the greedy choice gives up only if all coins together would
not do), and that only the saved work with the saved signatures is finalized, on
native builds with the service's signature on every packet. `SavedSpendIsDecided`
exempts one case: Arkd signs and marks the sources in `Submit`, and the checkpoints are
sent by `Finalize`; a stop or a failed call between the two leaves the spend pending,
and "Missing, pending, unavailable or failed queries never authorize retry"
(`game/protocol.md:299`), so the client waits. `Drivers` takes submitting and
finalizing as one, and its liveness properties hold on that assumption.

## Runs, bounds and what they show

| Run | States | Shows |
|---|---|---|
| `covenant` | 238,392 | all safety properties of a hand, promptness pays, the refinement of `HandRules`, automatic phases end, funds do not stay locked |
| `agreement` | 1,638 | live transactions, settlements and offers judged alike by builders, programs and admission |
| `setup` | 150,444 | setup of two clients is decided; a joiner expires only for lack of time |
| `setup_joiners` | 364,144 | one carrier per message, honest traffic admitted, one joiner, one contract |
| `transport` | 731,468 | nothing dropped silently, limits suffice, `PeerChannel` implemented, the exchange completes |
| `drivers` | 145,810 | exact recovery with a crash anywhere; saved actions decided, deposits paid out, results learned |
| `storage` | 578,991 | recovered logs are intact, both builds implement `DurableLog` |
| `client` | 369,118 | money accounted for, key ownership, inputs in their position, an interface that answers |
| `watch` | 37,751 | no wakeup is lost, every change is noticed |
| `wallet` | 280,350 | exact funding and finalization, decided spends |
| `drivers_retained`, `storage_fresh` | refuted | the findings below |

Bounds. The covenant run uses all streets, phases and both orders of play; no
street or phase is bounded away. `MaxWager = 5` with `MinBet = 2` allows a bet, a
raise of the minimum and a short raise to the cap (2, 4, 5), so each branch of the
raise rule is taken; `MaxWager = 4` with `MinBet = 1` in the agreement run allows
longer raising sequences. The clock runs beyond `LastDeadline` in `covenant`, so every
timeout can mature. The agreement run has no clock (`UntimedSpec` is `Spec`
without `Tick`): a program compares a timeout's time with the deadline itself.

`setup` has one joiner, whose clock may be one unit behind (allowed), level, or two
units ahead (more than allowed), one stop anywhere, and time to pass the deadline of
a final message saved at any moment. `setup_joiners` has two interchangeable joiners
(symmetry; it checks no liveness) and two stops, so that a party can stop twice or the creator and a
joiner once each, and one clock step, which separates a carrier from one signed later
and lets the final message come too late.

`transport` has two authors and two failures anywhere: lost connections, closed
subscriptions, refused or unanswered carriers, stops, second bodies. A queue of five
frames is what honest messages need with two failures (four do not suffice), and second
bodies overflow it, so the limit is met. Two retained messages are what the two numbers of one
peer need. Each side sends two messages, as in setup.

`Drivers` uses four outputs: deposit, funding, one betting output that can be
conceded, one that only a showdown settles; one crash in all, placed anywhere; a
clock that passes the one deadline they share, since liveness needs a clock that runs past the
last of them. Its four safety properties are proved for all intervals.

`storage` has two programs and two wallets, which is what locking, `ClearAll` and a
second open need, two tabs, two records that differ, logs of two records (a prefix
that is neither empty nor all), and no bound on deaths, failures and power losses;
programs, wallets, tabs and records are interchangeable (symmetry; no liveness).
`client` has two games in a log, two sessions in a process and one failure or death
anywhere, so that a session can follow another in the same process or in a new one.
`watch` has five changes for a queue of two events and a single pending hint, so
that the queue can overflow twice, and three failures. `wallet` has two coins of values 3, 4 or 11 and needs 6, or nothing: 3 and 3 are exact,
4 and 4 leave admissible change (2 or 3), 3 and 4 leave too little, 11 too much. Two
failures let a submission and its recovery both fail.

`CHECK_DEADLOCK FALSE` stands in three configurations, each for a state that is an
end: in `client` the bounds on sessions and games leave the user nothing to do; in `watch` an up-to-date
balance waits for a change that `MaxChanges` rules out; in `wallet` the spend is
decided.

## Fairness

- The clock advances (`Tick`).
- `RevealBoard` and `Showdown` are weakly fair: `Decide` maps those stages to an
  effect without asking the user.
- `Timeout` and the clock are assumed only inside `EventuallySettled`
  (`ClaimsAreTaken`). The client does not claim by itself
  ("Progress still never chooses or submits the claim", `driver_effects.go`); it
  offers the claim as long as it stays possible. The assumption is therefore about
  the waiting user, who has an interest in it. `AutomaticPhasesEnd` does without it.
- In `Setup`, a stopped process is started again by its user, the driver takes its
  next step, and the relay, which stores these events (`Kind` 2100 is a regular stored
  event, `nostr/events.go:25`), sends what it has to a subscriber. The clock need not
  advance.
- In `RelayTransport`, the driver, the reader and the peer go on. Taking a queued frame
  and returning a retained message are strongly fair: a wait lasts 250 ms, in which the
  call takes what is there. A publication that times out counts among the failures,
  whose number is bounded.
- In `Drivers`, a submission repeated for ever is eventually accepted if it stays
  valid (strong fairness of `AcceptCall`), the indexer catches up, a user restarts a
  crashed or halted client, and clients take their automatic steps. No one has to
  bet, reveal or fund.
- In `Client`, each goroutine that can go on does: the driver, the end of a run, the
  steps of a call, the reader of updates, the handling of messages, and the taking of an
  input, which the driver cannot pass by. The user, failures and new processes are not
  assumed.
- In `Watch`, goroutines run and the service answers registrations. The timer of 250 ms is
  fair only on the user's own turn, so that hints are what the property rests on
  elsewhere.
- In `Wallet`, calls return, with or without an answer, finalized transactions are
  published, and a stopped client is started again.

## Proofs

`CovenantProofs` proves, for every value of the constants that satisfies
`AmountsAssumption`, `TimeAssumption`, `ClockAssumption` and `DealsAssumption`:

| Theorem | Statement |
|---|---|
| `BooksBalance` | `Spec => []IInv`, the inductive invariant |
| `TypeCorrect` | `Spec => []TypeOK` |
| `LedgersBalance` | `Spec => []LedgerBalances`: no satoshi appears or vanishes, and each wallet funds its own wagers |
| `SettlementsAreFair` | `Spec => []SettlementIsFair` |
| `ValuesFit` | `Spec => []ValueWithinMoney` |
| `PromptnessPays` | `TimedSpec => []PromptPlayersNeverForfeit` |
| `TurnsPass` | `Spec => TurnsAlternate` |
| `RevealsFollowPhases` | `Spec => []RevealsMatchPhase` |
| `HandsEnd` | `Spec => []LifetimeBounded` |
| `RulesAreImplemented` | `Spec => ImplementsRules`: `Covenant` implements `HandRules` |

`LedgerBalances` is not inductive: a settlement pays out amounts computed from the
state packet, so one must know that the locked value is what the packet says, that
each contribution is stake, bond and own wagers, and that outside betting the wagers
are level. `IInv` says this per stage and phase. Each live builder is handled by a
lemma that gives the type of its successor, the shape of its wagers and who pays
the difference; `LiveIInv` combines them with the ledger; one lemma per terminal
builder computes the nets.

`PromptnessPays` says nothing of a single move: a late one takes away from the
opponent's interval what the opponent left unclaimed. `TimeIsKept` relates the two. Of a
prompt player obliged to move, no more of the interval is used than it has waited; and no
deadline of its opponent is past by more than it has left the claim unused. A move
adds one interval to the deadline, so the second bound for the mover's opponent becomes the first.
`TimedSpec` differs from `Spec` only by the history variable; the proof begins with
`TimedSpec => Spec`, so that the other invariants hold of it.

`ValuesFit` and `TurnsPass` are proved only, no run repeats them. `TurnsPass`
and `RevealsFollowPhases` follow from single moves. Each builder hands the turn to the opponent of the actor its
phase obliges, a reveal by way of the first and second actor of the street. The
published slots are inductive only together with the wagers: a showdown reveal is
due in a phase that a call with level wagers enters, an all-in one in a phase that
says which slots it completes. The invariant `Dealt` says what is published per phase; one lemma
per builder shows that its successor has it.

`HandsEnd` counts what moves are left. `Length` says per phase how many intervals the
deadline is past the first one, in terms of the street and of how often the larger wager rose:
each raise adds at least a minimum bet, so `QuotientBound` bounds the raises by
`MaxWager \div MinBet`. `RulesAreImplemented` needs `RulesInv`: `IInv`, who leads the
betting (`Lead`), and that only a settled hand has a settlement. Every builder maps to the
rule of its name, a timeout or a concession to the forfeit of the seat that was to move,
the clock to a stutter.

Its last part is about the three forms of the rules, under the same assumptions:

| Theorem | Statement |
|---|---|
| `ProgramsAreTheRules` | `Spec => []ScriptsMatchBuilders` |
| `AdmissionIsTheRules` | `Spec => []AdmissionMatchesBuilders` |
| `OneRule` | both for every transaction: any successor state, value and funding |
| `SettlementsReadOneWay` | `Spec => []TerminalReadingIsUnambiguous` |
| `NobodyIsTrapped` | an obliged player has a transaction that all three forms accept |

The three predicates agree only on outputs that occur, so the argument is about those:
`Ready` says that a state a hand reaches is one its obliged player's builder accepts, and
`Outputs` adds its value and its published shares from the theorems above. A program
compares bytes; `PhaseIsItsByte` says that a phase is read back from its byte,
`OneProgram` that only the program of the phase's kind, street and player can accept. Then one lemma
per phase and form (`BettingAgrees`, `BettingAdmitted`, ...) compares successor, value and
funding field by field. Admission refuses a share it has seen before;
`NeverPublishedTwice` says that none that is due was. `OffersFrom` turns the moves that
can be built into offers. For settlements, `ConcessionMask` and `TimeoutMask` say which
kinds and players a program's set of bytes stands for. `NobodyIsTrapped` is
what `ObligedPlayerCanMove` says, without `ENABLED`.

`DriverProofs` proves about `Drivers`, under `SkeletonAssumption` and
`TimesAssumption`: any length of hand, any choices, delays and number of crashes,
and a clock that runs for any time.

| Theorem | Statement |
|---|---|
| `OneBundle` | `Spec => []OneBundlePerSource` |
| `NothingForgotten` | `Spec => []NothingSentIsForgotten` |
| `AbortsAreFree` | `Spec => []AbortLocksNothing` |
| `FinalResults` | `Spec => []ResultsAreFinal` |

None of the four is inductive. `DInv` ties the bundles that left a client to the
spend in its log (`Carries`), the accepted transactions to what their senders have
saved as long as they have not seen them accepted (`Knows`), and the saved spend to
the last output seen (`PlayerFits`). Two bundles of one source are then the same
saved spend. A player with nothing saved has nothing with the services, so
preparing, aborting and moving on are safe; an accepted transaction settles the game
only as the last one, so a finished log has seen them all. `OwnStep` reduces a
driver's step to what it does to the one log and process it changes; every action
has a lemma.

`SetupProofs` proves about `Setup`, under `PartiesAssumption` and
`WindowAssumption`: any number of joiners, clocks and stops.

| Theorem | Statement |
|---|---|
| `OneCarrier` | `Spec => []OneCarrierPerMessage` |
| `OneJoiner` | `Spec => []OneJoinerProceeds` |
| `HonestTraffic` | `Spec => []HonestTrafficIsAdmitted` |
| `Expiry` | `Spec => []ExpiredMeansLate` |
| `OneContract` | `Spec => OffersOneContract`: `Setup` implements `ContractOffer` |

The invariant `SInv` says what a party's log knows of its next message and its one
carrier (`SavesItsNext`, `SavesOneCarrier`), whom its transport can have heard
(`HearsOnePeer`), that a carrier with the relay is the saved one or recorded as
published (`Recorded`), that the creator's carriers go to the peer of its log alone
(`Addressed`), and that whatever a joiner knows of the creator was meant for it
(`Chosen`). A carrier can be prepared only where the relay has none of its number, so
there is never a second; a joiner hears the creator only through a carrier addressed
to it.

`TInv` adds what the messages say: every message that a log, a process or the relay knows
is one its author's log determines (`Authored`), a log is in a stage that its messages explain
(`At`), so no admission check can fail, and a joiner expired only on a deadline too near
its clock (`Deadlines`). The refinement adds that the creator's final message never changes
(`OfferInv`, `LogMoves`).

`TransportProofs` proves about `RelayTransport`, under `LimitsAssumption`: any number of
peers, messages, failures and restarts, and any limits.

| Theorem | Statement |
|---|---|
| `PeersAreKept` | `Spec => [](Typed /\ Bound)`, the inductive invariant |
| `ChannelIsImplemented` | `Spec => ImplementsChannel`: the transport implements `PeerChannel` |
| `NothingIsDropped` | `Spec => []NothingDroppedSilently` |
| `LimitsAreEnough` | `Sufficient` implies `Spec => []LimitsSuffice` |

`Bound` says that what was taken and what was published concern one peer (`OnePeer`), that a
transport that received or replayed is pinned to it (`Pinned`), and what a waiting call holds (`Waits`).
Every step of connection, reader or queue is then a step of the channel or a stutter.
While a connection lasts, a message that its subscription selects is on the wire, in the queue
or no longer needed (`Kept`); once the latter, it stays so (`IgnoredStays`).

`Sufficient` asks for a queue of `Rounds + 3` places that also holds one message of every
author beside `Rounds + 1` frames, and for `Rounds` retained messages. `HonestInv` holds as long as no
author sends two bodies under one number: every message is the one setup asks for, and beyond the
first only the peer that was answered sends any (`AsAsked`); a connection that selects
every author is one whose peer is first heard on it (`Attended`); every frame is under way
once, on the wire or in the queue (`Once`). A frame is then determined by its kind, author and
number, and later messages come from the pinned peer alone (`LaterIsOwn`), so `KeysAreFew` bounds the keys; `Fits`, the pigeonhole principle,
turns that into room in the queue (`RoomInQueue`). What is retained has the numbers of one
peer beyond the cursor, `Rounds` at most (`NoneRefused`).

`StorageProofs` proves about
`Storage`, under `StoreAssumption` (any number of programs, wallets, tabs and records,
any interleaving of their steps with death, failed calls and power loss):

| Theorem | Statement |
|---|---|
| `RecoveredLogs` | `Spec => []RecoveredLogIsIntact` |
| `LogIsImplemented` | `Spec => ImplementsLog`: either build implements `DurableLog` |

Of a directory the invariant says (`Directory`) that neither what processes see nor
what the disk has is ever with a gap, that a directory that does not exist is empty
and unlocked, and that the acknowledged sequence starts the disk's table and the
disk's starts the processes', unless a clear is not confirmed: then nothing is
acknowledged. Of a process it says (`Works`) that it holds its locks alone and that its
count is the number of records, or one less between the rename and the
synchronization. The same is said of the rows and the tabs (`BrowserInv`). Lemmas about
tables (`OneMore`, `OneLess`, `StartsExtends`) carry the steps; `Undisturbed` and
`SameDirectory` say what a step leaves alone, and each action has a lemma. For the
refinement, a step touches one directory or one database, so it is a step of that log and a
stutter of the others; a power loss cuts all of them at once.

`ClientProofs` proves about `Client` and `UserInterface`, under `BoundsAssumption`: any
number of games, sessions and failures, and any user.

| Theorem | Statement |
|---|---|
| `Legality` | `Spec => [](Typed /\ MInv)`, the first inductive invariant |
| `MoneyIsKept` | `Spec => []MoneyIsAccountedFor` |
| `Consistency` | `Spec => []InterfaceIsConsistent` |
| `InputsArePlacedRight` | `Spec => InputsMeetTheirPosition` |

`MInv` says that the log is one the driver could have written (`LogInv`), that money is away
only after a spend was acknowledged and before a result (`StakeInv`), that a driver works
at the end of the log (`RunInv`), and that an abort about to erase has no session beside it
and no money away (`CallInv`). `CInv` counts
owners of the key (`KeyInv`), ties the interface's session to the client's (`SessionInv`), lets
one call be under way or answered (`SerialInv`), and one reader or update be awaited per
generation (`WaitInv`).

`PInv` is about how stale a choice may be. What the interface shows, or is about to
show, is a position of the running game, and it lags by no more records than there are
updates on their way (`ShowInv`); an update of the session is read only by
whoever follows it now (`FollowInv`). So an outcome cannot be passed over, and the next game does
not begin while a choice of the last one can still be made. An input that waits either fits the
position of the run, or finds a run that has left that position and rejects it before it
reaches another where it would be served (`InputInv`). `ServedInPosition` then shows
that the driver journals only the first kind.

`WalletProofs` proves about `Wallet`, under `WalletAssumption`: any finite set of coins, any
values and amounts, any answers of the services and any failures.

| Theorem | Statement |
|---|---|
| `SpendsAreExact` | `Spec => []SpendIsExact` |

Half of it is about the selection, which is computed by folds. The library's induction
theorems take operators, so existence and induction go by a least counterexample
instead: `RecursionExists` says that a function defined by recursion over the parts of a
finite set exists, `MinimalSet` that a set of sets has a minimal member. The folds are
such functions; `SumWithout` says that the order of adding does not matter, `SumGrows`
that more coins are worth more. `CandidatesAreAll` says that
sorting loses no coin, and `SelectionIsRight` that the greedy choice, taken step by step
(`SelectSteps`), is exact or leaves admissible change, and gives up only when nothing else
would do.

The other half is about signatures. `WInv` says that what is asked and the coins' values
never change (`Given`), that a saved spend is of coins selected for its amount
(`SavedInv`), and that the merged bundle at work and every finalized one carry the saved
spend (`WorkInv`, `Carries`). No answer of the services can add or remove a signature of the
player, since what was saved must be kept: `PacketMerges`, `BundleMerges` and `AnswerMerges` follow one answer through
`Merged`.

`WatchProofs` proves about `Watch`, under `StreamAssumption` and `HintAssumption`: any number of
changes and failures, any size of queue and any number of waiting hints.

| Theorem | Statement |
|---|---|
| `WakeupsAreKept` | `Spec => []NoWakeupIsLost` |

`WInv` adds to the property what makes it inductive. A stream that is live is registered with the
service, so the next change is sent (`Registered`); one that is ready has something to read
until its first reader (`Answered`), so attaching is followed by a wakeup and by an
inspection. A driver's goroutine ends only after it has woken the driver, and a driver that has
used up that wakeup is on its way to replacing the watch, not to waiting (`DriverFits`). The balance
asks only once it is attached (`BalanceFits`). Frames, events and hints speak of accepted
changes (`Typed`), without which a hint could make the driver record too much.
One lemma covers what ends a stream, one the steps between two waits (`LoopStep`), one the
replacing of a watch (`EnsureStep`); every action has its own.

Model-checked only: liveness, and `ObligedPlayerCanMove`, which contains `ENABLED`; both are
beyond the prover. `NobodyIsTrapped` proves what the latter says without `ENABLED`.

## Findings

`README.md:55-56` says of a setup abort "If funding has already begun, abort retains
the saved game so it can be resumed", and `client/abort.go:11` "covenant funding has
begun; saved game retained, restart to resume". A deposit that is prepared or signed
when the process stops, and not accepted before thirty seconds remain to the
deadline, is retained but cannot be resumed: `checkSigningTime` fails on every
restart, and `mayAbort` excludes those stages. Nothing is locked; the user must
clear the saved game explicitly. `RetainedGameResumes` states the documented
promise and TLC refutes it (`drivers_retained`).

`storage/files_native.go:200-201` says of `durableMkdir` "Persist newly created
directories too, so an acknowledged first record cannot disappear solely because its
parent directory entry was never synchronized". The function returns at once for a
directory that exists, and does not synchronize its parent. When the call that made the
directory stopped or failed before its `Sync`, every later open finds the directory,
appends are acknowledged, and a power loss can still remove the directory with all of
them. `AcknowledgedStays` states the comment's promise and TLC refutes it
(`storage_fresh`). Everything else holds: once the entry is on the disk, nothing
acknowledged is lost (`RecoveredLogIsIntact`).

A third disagreement has no run of its own. A rejected stale action clears `busy`,
whichever submission is pending (`ui/game.go:82-86`), so a user whose late action is rejected after the
outcome can ask for "New game" twice. The second request waits on the session's
unbuffered channel and starts a further game, unasked, when the next one ends;
`ui/game_test.go:74-76` calls an offer before the transition a "duplicate command offered
before transition". `InputsMeetTheirPosition` therefore speaks of the inputs of a game only. With
one session, three games and no failure (13,673 states) TLC refutes the clause for new games, and nothing else
of the client run.

## Not modelled

Zero-knowledge proofs, the Merkle rank table, hashes and encodings: their verdicts
are taken as given. Wire formats, codecs, PSBT layout, the link checks of accepted
transactions, key derivation and proofs of ownership. Adapters except for the
script-event stream, forms, layout and help of the interface, flags and
diagnostics: no state that decides anything above. A form that outlives its betting
position is closed by `ui/game.go:61-70`; a hand in `UserInterface` serves one position,
so no property here would notice if it were not. Of the peer transport, a `Close` during a
call, and the byte limits of frames and of the stream (`nostr/transport.go:540`,
`stream.go:38`), which the messages of an honest session cannot reach.

Three facts stay outside the models on purpose. A load returns records that a dead
process wrote and nobody synchronized; the game acts on them, and a power loss may
still take them (`storage/files_native.go:242`). `os.Stat` and `os.Mkdir` of
`durableMkdir` are one step. And two devices of one owner playing one saved game are
not modelled beyond the spends they make (`SpendElsewhere`).

## Plan

Done, in this order: `CovenantState`, `CovenantBuilders`, `Covenant`,
`CovenantProperties`; `HandRules` and the refinement; `CovenantTime`, `CovenantProofs`;
`EmulatorScripts`, `ClientAdmission`, `CovenantAgreement` and its proofs; `Drivers`, `DriverProofs`;
`ContractOffer`, `Setup`, its refinement, `SetupProofs`; `PeerChannel`,
`RelayTransport`, `TransportProofs`; `DurableLog`, `FileStore`,
`BrowserStore`, `Storage`, `StorageRefinement`, `StorageProofs`; `Client`,
`UserInterface`, `ClientProofs`; `ScriptStream`, `Watch`, `WatchProofs`; `Bundles`, `Wallet`,
`WalletProofs`.

Next, most important first:

1. `admitAccepted` and the wallet's inspection of covenant edges over an index that
   shows records in any order.
2. The private opening and evaluation records of the driver.

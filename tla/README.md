# Material Cookie Clicker: TLA+ models

Models of the parts of this application whose correctness depends on the order in
which things happen: the game's reducer, which settles half a dozen clocks in one tick;
the files the main process and other programs write into one another's hands; the save,
its backup and its history; the converter's queue; and what the window shows of it all.
TLC checks the models on small instances; TLAPS proves their safety properties, those of
the reducer as well as those of the files, for every instance. Paths below are those of the repository; most are under `src/`
there.

## 1. The system

The application is an Electron program. The **renderer** holds the whole game in one
`GameStore` and advances it with a pure reducer. The **main process** holds files: the
diesel voucher ledger, the save history, the converter queue, security records, shared
settings. They talk over ipc, where every call is a promise: while the main process
works, the renderer ticks on, and the handlers of several calls interleave at their
awaits. Other programs write some of the files too: WinForge stamps vouchers in the
ledger, and every installed application reads and writes school mode.

| Component | State it keeps | Operations | Interacts with |
|---|---|---|---|
| Reducer (`shared/game/reducer.ts`) | one `GameState` value | about fifty actions, a tick among them | store, all of `shared/game` |
| Shop (`generators.ts`, `upgrades.ts`, `tools.ts`, `achievements.ts`) | the jar, generators, upgrades with the click they were bought at, tools | click, buy, buy the most, progression | reducer |
| Golden cookies (`golden-cookie.ts`, `golden-challenges.ts`) | a cookie, its dial, an effect, the next time | spawn, press, catch, flee, expire | the stage: only one attraction at a time |
| Random events (`random-events.ts`) | up to three active events, a raid of mice, supplies, clocks | draw a stack, expire, click, whack, choose, buy | jar, golden effect, stage |
| Mini-games (`minigames.ts`) | a board, tokens, awards, claims, a clock | start, minimise, resume, restart, abandon, complete, draw | stage, wallet |
| Home construction (`home-construction.ts`) | blueprints, rooms, a site, extensions, furniture | buy, start, extend, furnish, the crew's tick | jar, upgrades |
| Diesel factory (`diesel-factory.ts`) | yard, tanks, equipment, upgrades, depot | tick, ship, buy | jar, ledger |
| Control unlocks (`control-unlocks.ts`, `migrations.ts`) | the rungs owned | buy, grant on migration | jar, save version |
| Prestige and reborn (`prestige.ts`, `reborn.ts`) | points, nodes, pinned upgrades | ascend, buy a node, pin | everything a run owns |
| Store and provider (`store.ts`, `GameProvider.tsx`) | the live state, timers, listeners | dispatch, replaceState, tick loop, autosave, wipe, restore, the mint observer | reducer, persistence, both services below |
| Persistence (`persistence.ts`) | primary, backup and quarantine keys of localStorage | load, save, wipe | provider |
| Save codec (`save-codec.ts`, `save-schema.ts`, `migrations.ts`, the sidecar in `random-events.ts`) | none; the layout of a save | encode, decode, migrate, salvage | persistence, every build there was |
| Save history (`main/save-history.ts`) | a bare Git repository: objects and one branch file | archive, list, read | provider, over ipc |
| Diesel ledger (`main/diesel-ledger-service.ts`) | `diesel-vouchers.json` | read, mint | the mint observer, WinForge |
| Converter queue (`converter-queue.ts`, `converter-queue-store.ts`, `converter-file-service.ts`) | one record file per item, outputs, two flags, a pump, abort controllers | enqueue, pause, resume, cancel, start, a conversion's steps | ipc, the file system, other programs |
| Shared settings (`main.ts`, `App.tsx`) | one file, polled; the window's own copy | choose, write, poll, hydrate, adopt | the other installed applications |
| Authenticator (`main.ts`, `security-vault-service.ts`, `security-local-history.ts`) | list, vault, schedule, history index | import, delete, schedule, export | the security screen |
| Updates (`update-service.ts`, `UpdateNotice.tsx`) | a status, the window's copy, what was put off | check, found, downloaded, failed, later, restart | Squirrel, the window |
| Purchase feedback (`purchase-fx-core.ts`, `purchase-fx.tsx`) | effects playing, mints waiting, a drain loop | enqueue, drain | store |
| Local models, surface kernel (`packages/`) | queues and small interface models | | vendored; not wired in this build |
| Converters, formatting, big numbers, screens | none | pure functions and views | |

What is hard, and what must nevertheless be true:

- *One tick settles everything.* Raid, jar, golden cookie, pool and boards are settled in
  turn, each with the stage as the one before left it. Two that fall due together must
  not both start; what mice take is what is reported; the pool rests after every stack.
- *Awards under made-up keys.* A token is paid under a key made of a time, a day or a
  board. Nothing is paid twice, and nothing that was won goes unpaid because a key
  collides.
- *Resets in the middle of things.* An ascension takes upgrades off the shelf while a
  site is open and tanks are full. Points are neither minted nor refunded, pins survive,
  the crew finishes, what was paid for stays.
- *Copies of one file.* A mint reads the ledger, awaits and renames its copy over the
  file, and nothing keeps two mints, or a mint and WinForge, apart. The security screen's
  handlers do the same with three files, the installed applications with one setting.
- *A difference taken for an event.* The observer mints the growth of a counter across
  every notification of the store, loads and restores among them.
- *A save cut short, a history cut short.* Two keys, or four files, are written one after
  the other and any write may be refused or be the last.
- *A save of another build.* A file is written by an older, this or a newer build and may
  be spoiled in places. Parts of it are required, defaulted, granted or salvaged in layers;
  what is legible comes back, and nothing that was not there.
- *Play that goes on during an await.* Ticks during a deletion's archive request, timers
  armed before it. A deleted run does not come back by itself.
- *A pump, its workers and three buttons.* Pause, resume, cancel and enqueue arrive
  between any two steps of a conversion, and the process may be lost.
- *News that may not be heard.* A release is found, fetched and told to a window that may
  listen late; an effect is queued behind others; neither may be forgotten.

## 2. Modules

| Module | What it is |
|---|---|
| `Sums` | sums, products, powers and successive percentages over a catalogue, as folds |
| `Counter` | the jar, the wallet of tokens and the achievements: what everything below shares |
| `GoldenCookie`, `RandomEvents`, `Minigames` | the three attractions, each with its slice of the tick |
| `Stage` | their composition: the whole tick, the player, closing and opening the game |
| `Shop`, `HomeConstruction`, `DieselFactory`, `ControlUnlocks`, `Ascension` | what cookies are put into, each over the one before |
| `Workshop` | their composition: the tick's other half, ascensions, migrations |
| `VoucherBook`, `DieselLedger` | abstract: a book vouchers are appended to and stamped in; the mint handler await by await, WinForge, a crash |
| `DieselExchange` | extends `DieselLedger` with the depot, its save and its archive, and the observer |
| `GameSession` | the provider over localStorage: load, play, autosave, delete, restore, quit, faults |
| `SaveCodec` | what is written of a game, and what this build makes of a file of any build, whole or damaged |
| `SaveLog`, `SaveHistory` | abstract: a log of saves that only grows; `archive()` write by write, cut short anywhere |
| `ConverterQueue` | controller, pump, workers, records, outputs, cancel's walk, restart |
| `SharedSettings` | school mode: main processes, windows, the file, its watch, messages |
| `Authenticator` | the security screen's handlers over list, vault and history |
| `Updates`, `PurchaseFx` | the update notice; the queue of purchase effects and its drain loop |
| `SumTheorems` | what the folds of `Sums` are, whatever the order they are taken in |
| `StageProofs`, `WorkshopProofs`, `DieselProofs`, `SaveProofs`, `SaveCodecProofs`, `ConverterQueueProofs`, `DesktopProofs` | the theorems about `Stage`; `Workshop`; the ledger and the exchange; the session and the history; the codec; the converter; shared settings, the security screen, the purchase effects and the updates |
| `MC...` | instances for TLC: the saves a play starts from, symmetry, and scenes of modules that share no state |

An operator named `Definition_Word` is a mutated form of `Definition`, the way a
plausible bug would change it; nothing uses it. Every checked property is violated when
one of these takes the place of the original.

**Counter, and numbers.** Cookies are naturals, prices grow by a constant ratio (`Power`; two in the
runs), shares are percentages rounded down. The properties ask who pays, how often and in which order; none
asks how a floating-point power rounds. Catalogues keep one row of each *kind* that the
code treats differently, with their guards.

**Stage.** Time is a clock of a few units; each waiting time of the code is a constant of
its own, so that what falls due together can. Random draws are `\E` over what the code
can draw. `Tick` is `handleTick` in its order: accrual, golden cookie, events with a
raid's theft, boards, achievements. `hidden` is the tick of a window in the background.
`Reopen` is a closed game: events that ran out are settled against the jar as it was
left, then the absence is paid. What is on a board is left out: from
the reducer's side a board may be completed at any time. A challenge's input rules are
left open too (mash, sequence, dial differ in what a press may do).

**Workshop.** `shelf` keeps for each upgrade the click count it was bought at and its
place, since that order decides what an ascension retains. A market day gives a share of
any price back. `Tick` is generators, refinery with its shipment, then the crew;
`Work` is the ticks that move an open site and are the only fair ones. `Migrate` takes a
save from its version to the latest, granting rung by rung as the code does.

**DieselLedger.** `phase[c]` is where the handler of call `c` stands: `reading`,
`writing`, `renaming`, `renamed` are its awaits, `minted`, `refused` its answers. The
copy it holds is `draft[c]`; a rename installs the copy whole. A voucher is named by the
call that mints it, because its UUID is drawn there. `appendVoucher`'s duplicate check
sees that one copy only, and since the UUID is new it never fires. WinForge is external
and does what `docs/winforge-diesel-exchange.md` says of it.

**DieselExchange.** A depot is what was made, what the tank holds and what was minted in
it. `Launch` is a fresh store whose load imports the save, the observer being subscribed
already; `Becomes` is a store notification with the observer's effect. The ipc call of
`Observe` enters the ledger's model in the same step, as `ipcMain` starts the handler
without a wait of its own. `shipped` and `resent` are history variables: litres that
left a tank, and litres by which a load or a restore made the counter grow.

**GameSession.** A game state is a run and how far it has come, which is what the
properties tell apart. localStorage is synchronous, so a load, a save or a wipe is one
step; the archive's answer is awaited, so a deletion is four (`WipeAsked`, the answer,
`WipeFinished`), with play and timers in between. A slot holds nothing, a payload that
decodes, or one that does not. The ghost variables are the last two saves (`durable`)
and what was deleted (`deleted`).

**SaveCodec.** A file is a set of parts, each good, absent or damaged, and a part's content
is whether there is any. The parts that are treated alike by the schemas are one: `core` is
what version 1 required. The rungs a migration grants (row by row in `ControlUnlocks`) are
one per version. `KnownTo` gives the parts that came without a version in the order in
which they came, so that a file may be of any build. The ghost `written` is the game its
writer had, `touched` what was spoiled since. `decodeMinigames` looks at the boards and the
rewards only, so damaged tokens reach the game, although `DecodeSaveResult` (from
`save-codec.ts:50`) promises a validated state; nothing is stated of a part that was itself spoiled.

**SaveHistory.** An object's id is the hash of its content and a commit names its
parent, so a commit is modelled as the sequence of saves it leads back through. A file
is whole or it is not in the sets. The branch file is truncated and then filled.

**ConverterQueue.** A worker is one `runOne` call, at one of its awaits. A status update
overwrites the record whatever it holds and is one step; a progress report writes back
the status it read and is two. A directory walk reads each record at its own time and
may or may not come across one appended meanwhile. A record that cannot be parsed, the
250-record page of cancel's walk, and a second `cancel()` while one is walking are left
out. Abort is looked at right before the link is issued, and both are one step.

**SharedSettings.** A poll reads the file and its message goes into the window's inbox,
and a hydration is a read and its answer: each is one step, as they take far less than
the second between polls. A write is two, with the rename apart. A window adopts what it
is told and writes back what it shows, since `App.tsx` saves in an effect on the mode
whoever changed it. A choice made before hydration is overridden by the file, as in the
code. `docs/tools/school-mode.md` still says that there is no watcher; `main.ts` has one.

**Authenticator.** A call holds its copies of the list, the vault and the index from the
await at which it read them to the write. `alone` remembers the calls that nothing has
overlapped. The import button has no busy guard, so two imports may overlap, and the
second loses the first's entry although both report success; no property forbids that,
since no document promises otherwise. What *is* checked is that damage stays among the
calls that overlapped.

**Updates.** Squirrel, the feed and the channel to the window are external. The window
listens once per launch: the menu that could reload it is removed. **PurchaseFx.** Time
is counted in frames of the drain loop; an effect's end is a number of frames left. The
durations keep the code's order, a group's window below the reduced effect, below a
row's, below a mint's (140, 320, 700 and 2000 ms). The narration line, the milestones
and the overlays' layout are left out.

## 3. Runs

| Run | Shows | Bounds |
|---|---|---|
| `Stage_play` | one attraction at a time, legal stacks, targets counted once, nothing paid twice or left unpaid, the pool rests, theft as reported | five scenes: a golden cookie; the pool; a raid; boards due with everything else; a chain of boards. Clock of 10, ticks of 1 or 2, absences of 3, eight catalogue rows, up to four mice, three boards |
| `Workshop_seasons` | house, plant, ladder and pins are sound; ascensions keep their word; the most is the most; sites are finished | five scenes: shop, house, plant, tree, doors. 2 generators, 6 upgrades, 2 tools, 2 rooms, 2 extensions, 4 lines of equipment, 7 factory upgrades, 5 nodes, 3 ladders, all versions from 5 on |
| `Beside_serial` | without overlap the ledger implements `VoucherBook`; an uncut branch file makes the history implement `SaveLog`, with every entry readable; a published version is offered; effects are orderly and every purchase is drawn | scenes: 3 mints one at a time; 4 saves with 2 cuts; 3 versions, 2 failures, 2 launches; 4 purchases on 2 rows and the depot, a drain at most one frame late |
| `DieselExchange_sessions` | what survives of overlapping copies; conservation of litres; each growth asked for once | 3 launches, 3 litres in tanks of 2, 2 mints that overlap, WinForge at any time |
| `DieselExchange_relaunch` | **violation**: a load is minted as if shipped | 2 launches, 1 litre |
| `GameSession_play` | one storage fault costs at most one autosave; a deleted run stays deleted; kept means in the history; progress is saved, deletions finish | 3 runs (two deletions), 2 faults, 1 step of progress in each run |
| `ConverterQueue_safety` | bounded concurrency, no record left at running, honest records, foreign files kept | 2 items, concurrency 1, a restart, 1 failing update, so two pumps at times |
| `ConverterQueue_live` | pumps end, what lies ahead of them is worked on | 2 items, 1 worker, no fault, no restart, no rival |
| `ConverterQueue_cancelled` | **violation**: an item marked cancelled is converted | 2 items |
| `Desktop_files` | quiet applications agree, choices settle; what was answered undisturbed is kept | scenes: 2 applications, 2 choices, 1 upset, 2 messages or writes in flight each; 3 calls, 1 refusal or crash, a history cut at 2 |
| `SaveCodec_versions` | a load gives back what was written, around damage and across builds, and is refused for a reason only | versions 1, 5, 8, 9 and 10, five ages of the parts without a version, both forms of the sidecar, 2 events of this build and 1 of a newer one, a stack of 1, 2 plays or damages |
| `SaveCodec_storage` | **violation**: storage rungs are lost with the stock beside them | the same |

Why these are enough. The interference in each model of a file is between two actors, and
a third adds an order but not a new kind of overlap; two mints in flight and WinForge give
three copies of the ledger. Two deletions cover a timer or a restore that outlives one of
them. Two cuts cover an archive begun over what the last one left. Two items at concurrency
one make the pump fill a page, go round and end. The scenes of `Stage` each begin shortly
before the attractions they are about fall due, alone and together, with a clock long
enough for what follows to rest and fall due once more. The scenes of `Workshop` each
begin rich enough for every purchase of theirs and too poor for all of them, and each cap
can be reached. In `Desktop_files` the applications begin in the same mode; of the three
calls one at most is a schedule or an export, which differ from the others in the history
only, and the two others come in one order, as calls are alike. What is not on in a scene
stays in one initial state. In `SaveCodec_versions` the versions are the first, the last that
lacks rungs, those beside the latest and the latest; two events make a stack too long and
one of a newer build makes it unknown; and two changes spoil two parts, or play on what a
spoiled file was read as, which is then written and read again. `CHECK_DEADLOCK FALSE` is
used throughout because every model stops once its bounded supply of time, calls, saves or
items is used up.

*Fairness.* An awaited file operation settles: each handler's next step in `DieselLedger`,
the pump, the walk and the workers in `ConverterQueue`, and the handlers of
`SharedSettings`; which of their outcomes occurs is left open. In `GameSession` the
interval fires as long as the window is open, a save that is not refused succeeds, and
the continuation of an answered promise runs. `SharedSettings` adds that the watch polls
and messages arrive. In `Workshop` only those ticks are fair that move the open site.
In `Updates` timers fire, Squirrel answers, the window loads and messages arrive; failures
are bounded. In `PurchaseFx` the loop goes on, as timers fire. Nothing is assumed of the
player, of other programs, or of faults. `ChoicesSettle` has one exception, which it needs:
without `[]<><<Overtaken>>` TLC finds two applications that each adopt the other's older
choice and write it back, for ever.

## 4. What the code does against what it says

Three disagreements are runs of their own:

- Every launch with litres on the counter mints them again (`GameProvider.tsx:261`,
  `DieselExchange_relaunch`).
- `start()` clears the cancelled flag while `cancel()` is still walking
  (`converter-queue.ts:94`, `ConverterQueue_cancelled`): items recorded as cancelled
  before conversion are converted.
- `decodeRandomEvents` keeps the storage rungs only where the stock beside them is legible
  (`random-events.ts:2207`, `SaveCodec_storage`), although its comment says that nothing
  the player paid for may be thrown away silently.

Others can be seen by changing a constant of a run, or one line of a configuration:

- With `MaxInFlight = 2`, `Beside_serial` violates `MintedIsKept`: two overlapping
  `diesel:mint` calls lose the earlier voucher (`diesel-ledger-service.ts:95`), although
  `docs/winforge-diesel-exchange.md:70` has the game never remove one.
- With `RefTears = TRUE` it violates `KeptIsListed`: a crash inside the rewrite of
  `refs/heads/main` leaves it empty, and every earlier entry unlisted
  (`save-history.ts:133`, `docs/data/deleted-save-history.md:3`).
- `MintsPlayInTurn`, given to `Beside_serial` as an invariant, is violated: a mint pressed
  after a pump has ended and before the next drain overtakes those that wait, of which the
  comment at `purchase-fx-core.ts:184` says that they take their turn.

And some no document rules out. Ticks and clicks between the archive request of a
deletion and its answer are deleted and in no archive (`GameProvider.tsx:392`); a restore
replaces a live run that was not archived (`GameProvider.tsx:420`); a failing quarantine
write leaves the game not ready (`persistence.ts:110`). A record update that fails in the
catch block of `runOne` rejects the pump while the rest of its page runs
(`converter-queue.ts:139`), so the next start runs a second pump, and
`WorkersAreAccountedFor` is stated for as long as no update failed. Grants on migration
look at a lifetime total that an ascension has reset, so that an old save that has
ascended loses controls it used (`control-unlocks.ts:1105`). Of upgrades bought at the
same click count the earliest are retained, the comment at `prestige.ts:31` notwithstanding. The dearest
starting node yields more than an ascension needs, so the next is free. A pass armed for a
raid is spent on an empty jar too (`random-events.ts:1511`). Receipts round each share
of what was invested by itself and may add up to more than it (`diesel-factory.ts:657`);
`shippableLitres` rounds the tank up by an epsilon (`diesel-factory.ts:637`).

`reducer.ts` carries residue of an unresolved merge at this commit (an unterminated
`handleStartHomeConstruction` at 608, `handleBuyTool` and `handleSetToolProgression`
twice, a second `const gained` in `handleTick`, duplicate cases). The models follow the
newer side. `automation.ts` imports names that do not exist and nothing calls it.

## 5. What is proved

All theorems hold for every value of the constants that satisfies the named assumptions of
the modules. Every safety invariant and every action property of a passing run is one of
them; the liveness properties are not.

**What is assumed of the constants.** Finite sets, natural bounds, and what the code's own
tables satisfy: `PoolAssumption` (what is drawn is in the catalogue, and a raid is drawn by
its own clock), `EventsAssumption` (bigger shelves hold no less), `GoldenAssumption` (the
next cookie comes minutes later, misses cost seconds), `ShopAssumption` and
`HouseAssumption` (prices and discounts are in range, ratios above one), `FactoryAssumption`
(any choice of efficiency upgrades leaves a litre some crude to cost), `ControlAssumption`
(what is sold has a ladder), `FxAssumption` (a pass of the loop is late by less than the
shortest effect lasts). `StageAssumption` and `WorkshopAssumption` are about the saves a
play starts from: of the right types, and with no hole in their ladders or their tree.
TLC evaluates all of them on every run.

**Stage** (`StageProofs`). Stacks are legal, targets and mice are counted once, stock was
bought or drawn, tokens are conserved, nothing starts over anything else, the stage rests
after every stack, theft is what is reported, and every golden cookie redeemed pays. None is
inductive as it stands. `StageInv` adds what each event remembers: a raid's mice and hits
that remain, with those counted, make up those it came with; a targets event's remaining and
claimed targets make up the catalogue's; what fat mice weigh is at most the share they may
take. Tokens need the wallet as a sum over its award keys, of which adding a key changes one
term. That no win goes unpaid needs a fact about time: every key in the wallet lies at least a
window and two misses before the cookie now out, or before the next one, so that the two
misses which may move a cookie's time back cannot make it meet an old key.

**Workshop** (`WorkshopProofs`). What was invested in house and plant is what their parts
cost; no litre leaks and nothing overflows; ladders have no holes; pins are owned; points
come from ascensions and go to nodes; what an ascension retains was bought no earlier than
what it drops; after buying the most one more cannot be paid for. `WorkInv` is a predicate on
each component's state, and the six stand side by side, as most actions write one of them. The work is in the operators. `GrownAdds`: prices that grow
geometrically cost the same however a purchase is grouped, so that a total over units does not
depend on the clicks that bought them. Capacities only grow with units and upgrades, hence
what fitted fits. For the retained share, `Ahead` is a strict order on the shelf; what is
ahead of a retained upgrade is a subset of what is ahead of a dropped one, and cardinalities
decide.

**Sums** (`SumTheorems`). The fold of the community modules picks the elements in an order
nobody knows, by recursion over subsets. That its table exists and that the result depends on
no order is shown by descent: among the finite subsets that would be counterexamples one is
minimal, and it is none. The same device replaces induction over naturals elsewhere. From it
follow that a sum or a product takes one factor more when an element is added, that sums are
monotone, and that powers add.

**The diesel ledger and its exchange** (`DieselProofs`). Ids are unique, vouchers are as asked,
stamps are WinForge's, a damaged file stays; and, assuming no overlap (`MaxInFlight = 1`,
`~WinForgeOverlaps`), minted vouchers stay and the ledger implements `VoucherBook`. The
checked invariants speak of the file, but a stale copy may become the file at any later time:
`LedgerInv` therefore says of every draft what the theorem says of the file, but for the
draft's own voucher, whose handler has not reached its rename. Every step of play is a step of
the ledger, so the exchange implements `DieselLedger`'s specification and inherits its
theorems. Every litre made is in a tank or minted, in the live state, the save and the
archive; and each growth of the counter is asked for once and written at most once, for any
number of overlapping mints (the sum over the vouchers asked for is what was shipped and what
a load made the counter grow by).

**Session and history** (`SaveProofs`). A deleted run stays deleted, kept means restorable,
and one storage fault costs at most one autosave. Inductive with them: a run's number is at
most `runs`, so a fresh run is none of the deleted ones; neither the live state, the two keys
nor a pending snapshot belong to a run deleted before; and the two keys hold the last two saves
until the fault, after which the primary still holds the last one, or is damaged beside a backup
with the one before (`CopiesFit`). In the
history, what is listed can be read, torn branch file or not; and, if it is not torn, kept
means listed and the history implements `SaveLog`. Every commit written has its tree, its blob
and its parent, and what the archive in progress has written so far is there.

**Codec** (`SaveCodecProofs`). A load gives back what was written and is refused for a reason
only, for any events, any limit of a stack and any number of plays and damages. `CodecInv`
says that the file is what its writer wrote except where it was spoiled, that a part it lacks
was empty in the game written, and that it has the required parts of its version and no others.

**Converter** (`ConverterQueueProofs`). For any items, concurrency, restarts and failing
updates, what is recorded as converted has its output (inductive with it: so has a job that is
about to record it) and a file of another program stays. As long as no update fails, no more
than `Concurrency` conversions run and a record at `running` has a worker or was left by a
restart. `OnePump` is why: the conversions are the page that the one pump awaits, and an item
is ahead of the walk, on its page or with a worker, once. It really fails after a refused
update, when a rejected pump leaves its page behind.

**Beside the game** (`DesktopProofs`). An application with nothing under way shows what the
file says, unless its last read or write failed; the reason is `NewsIsOnItsWay`: where a
window differs from the file, the file has changed since the last poll, or the last message
under way is what the file says, or a write of its own is pending. What an undisturbed call
of the security screen was answered outlives every later overlap, refusal and crash; again the
stale copies carry the argument: one that will still be written already holds the imported
entry, or omits the deleted one. Purchase effects are orderly: `FxInv` gives every purchase one
place, in the queue of the pump or in one effect, so that counting the new effects of a pass
counts each purchase once. And none is forgotten (`NothingIsForgotten`, the safety half of
`PurchasesAreDrawn`): one not yet drawn waits for the pump or begins an effect, and `TurnInv`
says that such an effect has more time left than the next pass can still be late. A notice of
updates that has heard all there is shows the service's status and offers only what is fetched
and newer (`NoticeStaysCurrent`), and no restart goes back to an older version: `UpdatesInv`
says that the status is what Squirrel does, that a window which listens has the newest status
last among its messages or has a request under way, and that no message says ready of a
package that was given up.

**Only model-checked.** Liveness: `ProgressIsSaved`, `PurchasesAreDrawn`, `WipeIsCarriedOut`,
`SiteIsFinished`, `ChoicesSettle`, `PublishedIsOffered` and `QueueIsServed`, as fairness and
ENABLED are out of the prover's reach. For `PurchasesAreDrawn` and
`PublishedIsOffered` the theorems above are the safety they lean on, and what is left is that
timers fire and messages arrive. The three violations are TLC's by nature.

## 6. Not modelled, and what is next

Left out for good: big-number arithmetic and formatting (floating point and text),
converters and one-time codes (bytes in, bytes out), the rules of locks and of schedules
(pure functions of a clock), React screens and copy, catalogue rows that differ in
numbers only. `game-save-service.ts` and `automation.ts` are called by no running code.
`packages/local-ollama` and `packages/surface-kernel` are vendored from other projects
(`VENDORED.md`), and `main.ts` wires none of their state. Partly modelled components are
listed with what is missing in `PROJECT.json`.

Next, in this order: the challenges' own input rules and the boards' moves; the narration
queue; the quarantine of corrupt queue records.

# Verification of the Soper mining system

Soper is the work of an operating-systems course: three practices (`p1`, `p2`,
`p3`) and a final project (`proyecto`) in which a *miner* program solves
proof-of-work blocks and a *monitor* program checks and prints them. The
specifications here are translated from the C code; names of variables,
functions and blocks are the source's.

## Inventory

```
 miner program (minero.c)                      monitor program (monitor.c)
 Minero --pipe--> Registrador --> <pid>.txt    Comprobador --ring--> Monitor --> stdout
    |                                              ^    shared memory, 3 semaphores
    +------------- POSIX message queue ------------+
```

| Component | State | Operations | Hard part | Correct when |
|---|---|---|---|---|
| Comprobador (`monitor.c:170-274`) | `bloque_mq`, `sint`, the queue | open and unlink the queue, receive, stamp the verdict, put in the ring, finish | SIGINT anywhere; calls that return EINTR; `sem_wait` never checked; a child that may be dead | every block is stamped and put in once, in order; the finishing block last; it ends |
| Monitor (`monitor.c:116-157`) | `bloque_monitor` | take out of the ring, print | no SIGINT handler, so Ctrl-C kills it holding anything | prints each block once, in order, with its own verdict; ends at the finishing block |
| Ring (`MemoriaMonitor`) | `bloque`, `front`, `rear`, `sem_fill`, `sem_empty`, `sem_mutex` | `anadirElemento`, `extraerElemento`, field by field | two processes, wrap-around | no overwrite, no torn or stale copy |
| Minero (`minero.c:280-519`) | `bl_actual`, `bl_ultimo`, `auxiliar`, flags, names | create the names, mine, vote, write to the pipe, send if there is room, finish | alarm and SIGINT anywhere, EINTR, SIGPIPE, names left by others, full queue | file and queue get the blocks mined, in order; the finishing block is sent; it ends with its child |
| Registrador (`minero.c:226-279`) | `b_actual`, the file | read the pipe, write the file | dies of Ctrl-C, `open` without a mode | the file is a faithful log |
| Thread search (`proyecto/minero.c:55-135`) | ranges | split, search, join | rounding, errors returned as solutions | finds the preimage |
| Names (`shm_open`, `mq_open`, `sem_open`) | what is linked | create exclusively, unlink | crashes, several programs | a new run can start |
| Voting (`p2/src/voting.c`; `proyecto/voting.c` is the same file) | `votes.bin`, `pids.bin`, three named semaphores, a signal mask and pending signals per process | become candidate, gather, wake, vote, count, next round; main starts and ends it all | a post made before `sigsuspend`, lost wake-ups, masks that change, the alarm, `sem_wait` cut short | one candidate, one writer, the verdict is the majority of the votes cast, rounds follow one another, everybody ends |
| mrush (`p1/ej13`) | two pipes, the target on both sides, `target_found` | search in threads, propose, check, move on | failure paths, pipe ends left open, threads left over | both sides agree on the target, success means everything was accepted, all three processes end |
| Practice 3 (`p3/monitor.c`, `p3/minero.c`) | ring and its three semaphores inside the shared memory, one queue, two names | the first monitor launched creates the memory and checks, the next one opens it, takes its name away and prints; miners create or share the queue | `pshared` 0 and lost wake-ups, memory used before it has a length or semaphores, names taken from others | as `proyecto`; blocks are divided, not lost, when several share |

Not part of the system: the course samples in `p1/src` and `p2/samples`, the
exercises `p1/ejercicio*.c`, texts and reports. `PROJECT.json` lists every
component with its status and every hazard with its line.

## Modules

| Module | What it is |
|---|---|
| `Bloques` | `struct Bloque`, `pow_hash`, the finishing block: what both programs share |
| `Monitor` | the monitor program, with the miner as the queue sees it |
| `Canal` | what the monitor program promises: a bounded FIFO channel with verdicts |
| `MonitorProofs` | theorems about `Monitor`, checked by TLAPS |
| `Minero` | the miner program, with the monitor program as the queue sees it |
| `MineroProofs` | theorems about `Minero`, checked by TLAPS |
| `Votacion` | the voting of practice 2: main process, voters, signals |
| `Urna` | what a voting promises: one vote each, the majority's verdict, no round over a voter who has not voted |
| `VotacionProofs`, `VotacionRondas` | theorems about `Votacion`, checked by TLAPS: types and files; rounds and `Urna` |
| `Mrush` | the miner and monitor of practice 1 over two pipes, with the miner's threads |
| `MrushProofs` | theorems about `Mrush`, checked by TLAPS |
| `MinerRush` | `Minero` and `Monitor` together, at the two ends of one queue |
| `MinerRushProofs` | theorems about `MinerRush`, checked by TLAPS |
| `Arranque` | the names of the final project's objects, with several miners and monitors |
| `ArranqueProofs` | theorems about `Arranque`, checked by TLAPS |
| `P3` | the miner and monitor programs of practice 3, several launches of each |
| `P3Proofs` | theorems about `P3`, checked by TLAPS |
| `MCMonitor`, `MCMinero`, `MCVotacion`, `MCMrush`, `MCMinerRush`, `MCArranque`, `MCP3` | values for TLC |

`Monitor` extends `Bloques` and instantiates `Canal`; `Votacion` instantiates
`Urna`; `Minero`, `Mrush`, `MinerRush` and `P3` extend `Bloques`. `MinerRush`
instantiates `Minero` and `Monitor`, and `P3` the same `Canal` as `Monitor`.

### Monitor

`pcC` and `pcM` say which call a process is about to make; each action is one
call or one run of local code up to the next call. The three places of
`comprobador` that put a block in the ring (lines 217-222, 235-240, 257-262) are
the same seven steps, and share the actions `C_WaitEmpty` to `C_PostFill`; what
sets them apart is the finishing flag, which is set before. `anadirElemento` and
`extraerElemento` copy field by field, so a copy is two actions, the second for
the two flags, and a process that overlaps it sees half a block.

SIGINT is sent to a set of processes (`Destinos`: Ctrl-C reaches both) and
delivered at any later moment. The Monitor dies (`vivoM`; its `pcM` stays, to
know what it held). The Comprobador dies before `sigaction`, and afterwards runs
`catcher`; a call that is *blocked* returns -1: `mq_receive` leads to the error
path, a `sem_wait` to the next line as if it had succeeded, `wait` to the exit.

`anadidos`, `impresos` and `eintr` are history: blocks put in, blocks printed,
and whether a `sem_wait` was ever cut short. The ring starts at zero
(`ftruncate`); uninitialised locals hold any block of `Basura`.

Environment: `MineroEnvia`, `MineroTermina` and `MineroCalla` are what the queue
sees of `minero.c`: a block if there is room, a finishing block and the name
unlinked, or silence (queue full at the end, or death).

### Minero

`pcMin` and `pcReg` follow the two processes from the fork. Mining, the vote and
the copy to `auxiliar` touch only the Minero's own memory and are one action,
`Minar`; a signal in between only sets a flag the loop reads later.
`manage_threads` is the set of values the search may return: a preimage among
the values the ranges cover (`Buscados`), -1 if there is none, and
`EXIT_FAILURE` = 1 when a thread cannot be created. `Buscados` is a constant
because the truncated doubles of line 106 lose the last value for 37, 43, 74 and
86 threads.

The alarm is set before the fork, goes off once, and kills a Minero that has not
installed its handlers. A blocked `write` to a full pipe returns EINTR (a block
is smaller than `PIPE_BUF`, so it is written whole or not at all); a `write`
with the Registrador gone is SIGPIPE; a blocked `wait` returns and the Minero
leaves. `escritura` is the Minero's write end; it closes with the process. The
several `dprintf` of a block (lines 250-271) are one step, since nobody reads the
file meanwhile; but a SIGINT that kills the Registrador there may leave the
record half written (`parte`), and `RegistroFiel` says which record that is.

`mq_open` and `shm_open` may fail otherwise than by EEXIST (`MqError`, `ShmError`),
and then the name is not unlinked; the `mmap` of line 354, which nobody checks,
ends the Minero with a SIGSEGV and both names linked (`InicioSigsegv`). `IpcFalla`
lets these calls, and `ftruncate`, fail.

Environment: `ConsumidorAbre` unlinks the queue's name and `ConsumidorRecibe`
takes blocks, when they like, perhaps never.

### Votacion

`pcMain` and `pc[v]` name the next call of the main process and of each voter.
Signals are the heart of it. `pend[p]` is what is pending at `p`; `Manda` is
`kill`; `Entregable` says what the mask in force lets in. Outside `sigsuspend` a
voter blocks nothing; inside, the mask is `sa_mask`, the local set at lines 69-71
and changed at 86-90 and 230-235. Entering `sigsuspend` is a step of its
own (`V_Sigsuspend`, from `suspende1` to `espera1`): a signal handled before it
wakes nobody, which `perdida` records. A handled signal cuts a `sem_wait` short
only if it was blocked (`VotanteEintr`, `MainEintr`), and the code goes on as
if it had been posted (`eintr`). The SIGUSR a candidate sends to itself is
handled before `kill` returns and changes nothing, so it is left out.

`sleep(5)` before the count is no step: the candidate may count at once, so
votes can be late (nothing in the code rules it out). `votes.bin` begins with an
old vote of an earlier run. A vote is written when its stream is closed, in one
piece, so opening, writing and closing are one step. `vota` is the parity
of each voter's hash, the only thing a pid counts for. The failing calls are
`calloc`, `fork`, `fopen` in each place and main's `fwrite`.

### Mrush

`pc` has the three processes, `pcT` the miner's threads: `mira` is the loop test
with the read of `target_found`, `prueba` the hash and the raising of the flag,
`apunta` the write of the solution after it. The two pipes are sequences; end of
file and SIGPIPE depend on who still holds an end open, and main holds them all
(`Abierto`). `solution_check` and the monitor's `solution` keep their old value
when `read` returns 0, as in the code. A `pthread_create` that fails returns 1
as the solution and leaves the earlier threads running (`huerfanos`): what they
may still do to the flag (`HuerfanoAvisa`) and, in a step of its own, perhaps in a later
search, to a reused stack frame (`HuerfanoApunta`) is any of its outcomes. `Mata` kills any process at any instruction. `ExitoFiel` allows one
exception that the proof brought out: a miner killed before its goodbye leaves
its monitor to read 0 at the end of the pipe with the last solution still in its
variable, and to accept it once more if it is its own hash (the value 3 in `mrush`).

### MinerRush

Nothing is modelled again: `Min` and `Mon` are the two modules, with their own
variables and `mq` and `mqNombre` shared, and `Next` takes the steps of the two
programs and of SIGINT, not those of the environments. That what `Minero`
assumes of a reader covers the real reader is `ImplementaMinero`. The converse is
not stated: `Monitor`'s own miner numbers its blocks without gaps, while the
real one leaves out those it found no room for, so what the queue brings is
checked here from end to end instead (`ImpresoEsMinado`). The alarm goes off once
at any time, even before the handlers are there.

### Arranque

`nombre[n]` is the program whose object the name `n` is linked to; `queue` which
miner's queue a Comprobador has open, since that need not be the one that has
the name now. Each action is one call on a name: an exclusive create, EEXIST, an
unlink. Mining, the ring and the blocks are reduced to what decides which
program goes on: `fin`, the finishing block (sent, not sent because the queue
was full, read), and `hijo`, the monitor's child. Launches of one program are numbered in
the order they come to their first call, since they differ in nothing else. For the
launches in `Fallan` every one of these calls may also fail for want of resources,
which unlinks nothing, and such a miner may end by an unchecked `mmap` as by a failing
`write` (`MineroAbandona`).

### P3

The first launch of the monitor program creates the memory and is the
comprobador; one that finds the name opens it, takes the name away and is a
monitor: of that memory, or, if things moved in between, of another. A memory or a
queue is called after the program that created it. The middle of both loops, wait for the mutex
and post it, is the same code and the same action. `dormidos` has the processes
asleep in a `sem_wait`: with `pshared` 0 a post need not wake a sleeper of
another process, so `SemPost` wakes one or none; a process that finds the value
positive does not sleep. A memory just created has no length: whoever touches it then gets
SIGBUS; once it has one its bytes are zeros until `SemInit`, which is `front`, `rear` and
the three `sem_init` in one step: until the last of them a monitor finds `fill` 0 and
waits, as before and after. `puestos`, `turnos` and
`impresos` are history: blocks put into each memory, who took which turn, what
each monitor printed. The lag is a `usleep` and no step, so its being read from
the number of cycles (`minero.c:97`) shows nowhere.

`Reparto` is stated place by place: the k-th turn of a memory, if it is p's, is the block
at the place in what p took that its turns up to k say. `Conserva` counts a miner's blocks one by
one, so that a miner of more cycles than the chain is long before it repeats itself counts
each block as often as it was sent. The channel of `ImplementaCanal` is read from the two
roles: the queue the comprobador has open or would find, the two hands with the ring between them, and
the monitor's prints; while a role is not taken its part is empty.

## Runs

The hash is over 0..4 with multiplier 3 and offset 1 (over 0..6 in `mrush`), a
permutation like the real one (0..7, 2 and 4 in `p3_dos`, not a permutation, so that
a search can fail), and in which `pow_hash(-1)` is neither -1 nor a
target, as in the real one. Deadlock is not checked: the programs do stop, and
do hang, and liveness properties say when they must not.

| Run | Bounds | Result |
|---|---|---|
| `monitor_fifo` | ring 2, queue 2, 5 blocks, no SIGINT | `Monitor` implements `Canal` (`ImplementaCanal`); every block is printed (`TodoSeImprime`) |
| `monitor_sigint` | ring 2, queue 2, 3 blocks, 2 SIGINTs to anybody, queue or not, miner may vanish, mmap may fail | type, mutual exclusion, no overwrite, FIFO, verdicts while no `sem_wait` was cut short; the finishing block last in every case; a finishing block ends both processes even with the ring overrun (`FinLlega`) |
| `monitor_eintr` | ring 1, 1 SIGINT to the Comprobador | **violated**: it overwrites an unread block |
| `minero_todo` | pipe 1, queue 2, 3 blocks, 1 SIGINT to anybody, every failure, names taken or not, last value lost | file and queue hold the blocks mined, in order; `mq_send` never blocks; targets, votes and identifiers chain; both processes end |
| `votacion_ronda` | 3 voters, two splits of the vote, 3 rounds, no signal from outside | one candidate, everybody gathered, implements `Urna`; the first round reaches a verdict or a wake-up was lost |
| `votacion_senales` | 2 voters, 1 round, one alarm or Ctrl-C, every call may fail, a name may be left over | one process in the file; the end of main and all voters |
| `votacion_siguiente` | 2 voters, 2 rounds | **violated**: nobody votes in the second round |
| `mrush` | 2 threads, 3 cycles, targets whose chains are long, end early, or meet 1, any process may be killed, fork and create may fail | miner and monitor agree on the target, a search that stops early loses nothing, success means accepted, all three end |
| `minerrush` | ring 2, queue 1, pipe 1, 2 blocks, one Ctrl-C in either program or one SIGINT to the Comprobador, mmap may fail | what is printed was mined, in order, once, with the miner's vote; the miner keeps to `Minero`; the alarm ends the four processes, save for the waits `Acaba` names |
| `arranque` | 3 miners, 2 monitors; every call of the second miner and of the first monitor may fail, and that monitor may be killed anywhere | who may leave a name linked (`Restos`); how many miners mine at once (`PrimerMinero`); no monitor starts once a semaphore's name is abandoned (`SinVuelta`); monitors end (`Acaba`) |
| `p3_dos` | 2 monitors, 2 miners, ring 2, queue 2, 2 or 3 cycles | blocks sent are queued, in hand or in a ring (`Conserva`); the pair implements `Canal` |
| `p3_tres` | 3 monitors, 1 miner, ring 2, queue 1, 0 or 2 cycles, 1 kill, failing calls | type, mutual exclusion and no overwrite in every memory (`MemoriaSegura`), each monitor prints its turns (`Reparto`), programs end (`Acaba`) |

Why the bounds are enough: with a ring of 2 and 5 blocks both positions wrap
twice and the ring is full, empty and in between; with a ring of 1 a
Comprobador that does not wait overruns it at once. Two SIGINTs are needed to cut
two different waits short or to hit both processes apart; a third repeats one of
those. In `Minero` a pipe of 1 is full after one block and a queue of 2 after
two, and three blocks make the chain lose its target and go on. In `Votacion`
three voters are the fewest with a majority that is not everybody and with two
voters racing in the file; the second round is where what the first left behind
(`candidate`, `result`, masks, posts of `sem_s`) counts, and it never completes,
so a third allowed one is never begun. In `Mrush` three cycles move both
targets on twice, two threads are the least that can stop each other, and the
value 6 lies outside both ranges. In `MinerRush` a queue of 1
is full after one block, so the second block and the finishing block are each
sometimes left out. In `Arranque` the third miner is needed for one turned away
to take the name of one that mines from the next; two monitors are the fewest that meet each other's
semaphores, and the killed one leaves them. The miner whose calls may fail has one
before it, which may be mining or gone, and one after it that finds what it left; the
theorems about `Arranque` hold whatever `Fallan` is. In `P3` three launches give two
monitors on one memory, or two comprobadores on one queue; two miners share a
queue or have one each. `NumBloques`, `MaxBloques`, `MaxSigint`,
`MaxRondas`, `MaxSenales`, `Fallan` and `Mortales` are bounds of the models; the other constants are
parameters of the code or of its environment (which calls may fail, whom a
signal may reach, what an uninitialised local may hold).

**Fairness.** Weak fairness of each process, each thread and of signal
delivery: the kernel schedules what can run and delivers pending signals. In
`Arranque`, where each program takes finitely many steps, only that while some
started program can go on, one of them does (`Avanza`). In `Minero` also of the alarm, which the kernel keeps; in `Votacion` nothing is
assumed of the alarm, and `Termina` begins where a signal is pending. Nothing is
assumed of the user, nor of the program at the other end of the queue: where a
property needs it, the property says so (`TodoSeImprime` starts when the
finishing block is queued).

**What the properties except, because the code goes wrong there.** No run catches
these hazards: the properties name them and hold in every other case. They
follow from the code, and `RanuraLibre` and `SiguienteRonda` apart are not run as violations: the Minero whose `ftruncate` fails and its
child wait for each other (`minero.c:349`); voters forked before a failing `fork`
or `fopen` sleep for ever (`voting.c:348`); a mrush miner that found nothing waits
for a monitor it has not told (`p1/ej13/minero.c:110`), and one whose monitor was
killed waits on a pipe main keeps open. In `MinerRush` the Comprobador waits for
ever in `mq_receive` when the finishing block found the queue full
(`minero.c:492`) or the miner left through an error, and a SIGINT
that came just before it blocked there is noticed only at the next message
(`monitor.c:231`); with the Monitor killed by Ctrl-C, or without memory, it waits for a slot or for the mutex;
and the Monitor waits for a Comprobador that found no queue or died. In `Arranque` two
Comprobadores may read one queue, and one finishing block ends one of them. In
`P3` the same, and: a process sleeps through the post meant for it; the mutex
went with a killed holder; a monitor opened a memory its comprobador had left.
A SIGUSR1 sent to a voter not yet in `sigsuspend` is lost
(`voting.c:82`, though line 371 counts on it; `perdida`), and a
`sem_wait` cut short lets the candidate count from what `sem_getvalue` left in
`result` (`voting.c:118`; `eintr`). A miner takes itself for the first
when it can create `SHM_MINERO` (`minero.c:323-326`), but a miner turned away
unlinks that name, so two may mine at once, each believing it is the first: `PrimerMinero`
bounds how many, and with no one turned away it is one. The finishing block that finds
the queue full goes against `minero.c:485`, and the Comprobador that Ctrl-C leaves in `sem_wait`
against `monitor.c:230`. Other things worth
knowing, visible in the models: Ctrl-C kills the Registrador and the next write kills the Minero;
half of one vote, rounded up, is none (`minero.c:413`); a Comprobador without a
queue leaves the Monitor waiting (`monitor.c:204`). A late vote is left out of the count
(`voting.c:181`), which `Urna` allows; what follows a `sem_wait` cut short in the voting
(`voting.c:141`, 375) is outside `ExclusionFichero` and `Reunidos`; names left linked
there (`voting.c:276`) stop every later run; and a value above the last range of a
mrush search (`p1/ej13/minero.c:67`) is outside `BusquedaFiel`.

Each property of a passing run has a mutant, an operator of the module it changes
(`..._SinPost`, `..._Ultimo` and the like) that changes one definition the way a
slip in the code would; TLC finds the property violated with it.

## Proofs

`MonitorProofs` proves, for every ring and queue size, every hash, any number of
blocks and SIGINTs, from `MonitorAssumption` (sizes are positive, sets have
their types):

- `TipoCorrecto`: `Spec => []TypeOK`.
- `CuentasCorrectas`: the accounts. While no `sem_wait` was cut short, the mutex
  plus who is inside is 1; `sem_fill` plus a block put in and not yet posted plus
  one claimed and not yet copied is the number of blocks in the ring; `sem_empty`
  is the rest. `ExclusionMutua` and `NoSobrescribe` are not inductive, since the
  guard of a wait says nothing of the other process; with the accounts they
  are arithmetic (`ExclusionSegura`, `RanuraSegura`).
- `FifoCorrecto`: slot `(front + j) % BUFFER_SIZE` holds the j-th block not taken
  out, and `rear` is at the end of them; a half-made copy lacks just the flags.
  Positions are offsets from `front` below `BUFFER_SIZE`, so the remainder takes
  `BUFFER_SIZE` away at most once (`RestoSuma`), and different offsets are
  different slots (`RestoDistinto`). `OrdenSeguro` follows.
- `VeredictoSeguro`: from the stamps (`Sellados`) and `OrdenFifo`.
- `FinSeguro`: `FinEsUltimo`, which needs no assumption on EINTR.
- `InductivaSegura`: the whole invariant, `Inductiva`, the conjunction of these.
- `CanalImplementado`: `Spec /\ [](enviadasSig = 0) => ImplementaCanal`. The blocks
  `Canal` holds inside are the end of `anadidos` from the last one out, plus the one
  in the Comprobador's hand (`EsCola`). The hypothesis is needed: a SIGINT turns the
  block at hand into a finishing block (`monitor.c:231`) or cuts a wait short, and
  `Canal` does neither.

`VotacionProofs` proves, for any number of voters, rounds, signals and failing
calls, from `VotacionAssumption`:

- `TipoCorrecto`: `Spec => []TypeOK`, with the index of `sem_open` (`Tipo`), which
  the type of `nombres` needs.
- `FicheroSeguro`: `Spec => []ExclusionFichero`. That no two processes are inside is
  not inductive: `Exclusion` adds that `sem_f` is 0 or 1 and that nobody is inside
  when it is 1. The converse does not hold, since a process that dies or fails
  inside keeps the semaphore. Every action either lets nobody in (`NadieEntra`),
  takes the semaphore and goes in (`Entra`), leaves and posts it (`Sale`), or cuts
  a `sem_wait` short (`Interrumpido`), after which the property promises nothing.

`VotacionRondas` goes on to the rounds, for which `sem_s` has to be counted:

- `RondasSeguras`: the invariant `Rondas`, while no `sem_wait` is cut short. Before
  main's SIGUSR1 (`Preparacion`) each post of `sem_s` is of a voter of its own at the
  top. From then on either nobody is the candidate (`SinCandidato`), or one is
  (`ConCandidato`) and its waits plus the value of `sem_s` are at most the voters
  that announced themselves (`Convocatoria`) or came back having voted (`Recuento`);
  n-1 waits made, that is all of them. `Papel` ties each voter's place to its mask:
  after voting it blocks the SIGUSR1 of the next round, so nobody ever takes the
  candidate's place.
- `CandidatoUnico` and `ReunidosSeguro` follow: `UnCandidato` and `Reunidos`.
- `UrnaImplementadaSegura`: `Spec /\ [](~eintr) => ImplementaUrna`. `Escrutinio` says what
  the file holds (`Papeletas`: one vote each, nobody about to vote is in it) and what the
  candidate's `result` is (`Mesa`): 0 when it opens the file, since the last
  `sem_getvalue` found no post left, then the count of what it has read. A voter on
  its own never calls `sem_getvalue` and begins from its last round, which gives the
  same verdict. The hypothesis is needed: a wait cut short lets the candidate go on
  before the others have voted.

`ArranqueProofs` proves, for any number of miners and monitors, any subset of them
killed and any subset with failing calls, from `ArranqueAssumption`:

- `TipoCorrecto`: `Spec => []Tipo`: `TypeOK` and who links which name, `MQ_NAME` and
  `SHM_MINERO` a miner, the others a monitor program. Both programs have states of the
  same name, so `Restos` needs it.
- `RestosSeguro`: `Spec => []Restos`, inductive with `Tipo`: a program leaves the states
  in which it must still unlink a name only through the unlink, or by failing.
- `SinVueltaSeguro`: `Spec => SinVuelta`. A name that is taken stops whoever comes to
  its `sem_open`, and those before it come there first (`AbandonadoMonitor`); only a
  monitor past all three could unlink, and there is none; the one that left the
  name takes no steps (`DuenoQuieto`, by `Restos`).
- `PrimerMineroSeguro`: `Spec => []PrimerMinero`. `Cuenta` counts the name as well: miners
  that mine, dead ones included, are at most those turned away plus one if
  `SHM_MINERO` is linked. An exclusive create adds one to both sides, an unlink by a
  miner turned away moves one from the name to the turned away, an unlink at the end
  takes one off each.

`MineroProofs` proves, for every hash, search range, capacity of queue and pipe and
number of SIGINTs, from `MineroAssumption` and `MenosUnoAssumption`, which says that -1 is
not its own hash (with the constants of `pow.c` it hashes to -35684986): without it the
block mined after a failed search would be a solved one.

- `InvarianteSegura`: `Inductiva` is `Tipo` and three parts. `Mina`: what the Minero holds is
  the block it mined last, or the next one. `Camino`: file, Registrador's hand and pipe
  put together are a prefix of `minados` that lacks at most the block being
  written, and a record cut short is the next one (`Cortado`). `Orden`: the queue has had blocks with growing identifiers, and has room when
  the Minero has just asked.
- `TipoCorrecto`, `RegistroSeguro`, `CompletoSeguro`, `EnvioSeguro`, `ColaSegura`,
  `CadenaSegura`: `TypeOK`, `RegistroFiel`, `RegistroCompleto`, `EnvioNoBloquea`, `ColaEnOrden`
  and `Cadena`.

`MinerRushProofs` puts the two programs together, from the assumptions of both:

- `MineroImplementado`: `Spec => ImplementaMinero`. The steps are those of `Minero` by
  construction, except those of the reader: the Comprobador reads only after it has
  unlinked the name, which the miner program links once (`Nombre`).
- `ImpresoSeguro`: `Spec => []ImpresoEsMinado`. It follows from what was proved of each
  program alone (`ColaEnOrden`, `Cadena`, `OrdenFifo`, `Sellados`, with the proof modules
  instantiated) and one link between them, `Enlace`: the queue is the end of what was
  sent, and the k-th block put in the ring is the k-th sent, stamped.

`MrushProofs` proves, for any number of threads and cycles, any initial target and any
failures, from `MrushAssumption`:

- `TipoCorrecto`: `Spec => [](TypeOK /\ Lugares)`: the types, with no cycle begun past the
  last, and each process at a place of its own code (`Lugares`).
- `AcuerdoSeguro` and `ExitoSeguro`: `Acuerdo` and `ExitoFiel`. The invariant, `Conversacion`,
  has a case for each place of the miner: what is in the two pipes, what the monitor
  has answered and how many solutions it has accepted (`Dialogo`, `Exito`).
- `BusquedaSegura`: `BusquedaFiel`, from `Busqueda`: each thread has tried all the
  values before its own (`HiloBien`), and a raised flag belongs to a thread
  that has a solution, written down or about to be.

`P3Proofs` proves, for any number of launches, kills and failing calls, from
`P3Assumption`:

- `TipoCorrecto`: `Spec => [](TypeOK /\ Papeles)`: the types, and the role of each program:
  whose memory it has mapped, which half of the code it runs, and that it has opened the
  queue it uses.
- `MemoriaSiempreSegura`: `MemoriaSegura`, from `Cuentas`. `Inicio`: nobody gets past
  `sem_wait(fill)` of a memory without semaphores. `Exclusiva`: the mutex plus
  those inside is at most 1, at most since a killed program keeps it. `Vacias`: free
  slots, blocks in the ring and slots claimed or about to be given back are at most
  `BUFFER_SIZE`.
- `RepartoSeguro`: `Reparto`, from `Reparte`, which is `Cuentas` and what makes the blocks of
  a memory those put in. `Llenas`: full slots posted or claimed are at most the blocks in the
  ring, so whoever takes a turn finds one. `Contenido`: the ring from `front` to `rear` holds
  `puestos` after the last turn, in order, and `CopiaC` and `CopiaM` say the same of a copy
  half way. `Duenos`, `Callados`: turns and prints belong to monitors of that memory.
  Only the mutex keeps two monitors from the same slot, so `Exclusiva` is needed too.
- `ConservaSegura`: `Conserva`, from `Envio`. Each set that `Conserva` counts is shown
  finite, and a step moves one element from one to the next (`Cuadra`); a miner's target
  is the link of the chain its count says (`Encadenados`), and a comprobador begins to read
  with an empty ring (`SinLeer`). `Cadena` is recursive; that a function satisfies its
  equation is proved here (`CadenaHasta`, `CadenaUnica`, `CadenaEs`) by least
  counterexample, without the library's induction, which needs an operator parameter.
- `CanalDeDos`: `Spec /\ Cardinality(Monitores) <= 2 => ImplementaCanal`. With a third launch
  it is false: two monitors share a memory's blocks, or two comprobadores a queue's. `Dueto` is what two
  launches add to `Reparte`: one comprobador at most, since the memory's name stays
  till a monitor has come (`Pareja`); a comprobador that goes on has put in no finishing block
  (`SinFin`), a monitor leaves at one (`Salida`); a queue nobody has created
  is empty (`SinCrear`). From both follows `Vista`: the channel holds what the comprobador
  has accepted without what has come out of the monitor. That reduces each step to what
  goes in and what comes out; `Rutina` is a step that does neither. A killed program
  stops the channel and never makes a block be skipped.

These invariants (`Dueto` for two launches) hold with every interleaving, a
kill anywhere and lost wake-ups: none of them says that a sleeper is woken.

Left to TLC: liveness only (`TodoSeImprime`, `FinLlega`, `PrimeraRonda`, the various `Termina`
and `Acaba`), which rests on fairness and ENABLED, beyond the prover. Every other property
of a passing run is stated by a theorem.

## Not modelled, and the plan

1. `Busqueda`: the ranges of `proyecto`, against the reference "every value is tried
   once", for the truncated doubles of `minero.c:106`; `Minero` has only what a search may
   return.

Left out on purpose: layout of what is printed, argument checking, the other 49
wallets of a block (uninitialised in the code, and only printed), the winner's
pid, and, in `Minero`, what threads still running after a failed
`pthread_create` write to a dead stack frame (`Mrush` has it).

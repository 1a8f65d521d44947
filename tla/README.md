# HEonGPU in TLA+

HEonGPU is a C++/CUDA library for homomorphic encryption (BFV, CKKS, TFHE). The
arithmetic runs in CUDA kernels; around it is host code that keeps track of what
each object is, where its memory lives, which stream wrote it last and which
thread may touch it. These modules model that host code and the integer
arithmetic of the kernels that key switching, rescaling, BFV products, joint
keys and TFHE gates rest on. TLC checks them on small instances, and TLAPS proves
the central facts of the host code, and those of the joint keys and of the TFHE
gates, for every instance.

Source paths below are short for `src/lib/host/...`, `src/include/heongpu/...` and
`src/lib/util/...` of the repository. `PROJECT.json` maps each definition to its
file and lines.

## Inventory

### Sessions (`ckks/session.cu`, `bfv/session.cu`)

- State: one `SessionState` shared by all copies of an `HESession` and by the
  ciphertexts they return: context, keys, encoder, operators, and an optional
  `Galoiskey` that grows; `galois_mutex` guards it.
- Operations: rotations, conjugation and bootstrapping (which make the keys they
  lack), `add_rotations`, `galois_key()`, `save`, `load`, `on_stream`.
- Calls: the key generator, the operators, the storage of the keys.
- Hard: threads add keys while others rotate or save; a lock is dropped and taken
  back; keys are written on one stream and read on others; a generation fails
  half way.
- Correct means: a rotation finds the finished keys of its steps, whatever other
  threads do; a saved key is whole; every call returns.

### Memory pool and initialization (`memorypool.cu`, `runtime.cu`)

- State: process-wide pools of host and device memory, the sets of buffers that
  came from them, byte counters, the RMM default resource and the one it replaced,
  the random number generator.
- Operations: `initialize` and `generate()` of a context (four separately locked
  calls), `shutdown`, allocation and release of buffers, `DeviceVector`s that keep
  a reference to the resource they were made with.
- Calls: RMM resources and adaptors; every object of the library calls it.
- Hard: contexts turn the pool on and off while buffers live; an initialization
  throws half way; two threads initialize; shutdown while objects exist.
- Correct means: buffers go back where they came from; no memory outlives its
  pool; the counters that shutdown relies on are exact; the RMM default is never a
  pool that is gone.

### CKKS operators (`ckks/operator.cu`, `ckks/operator.cuh`)

- State: of each ciphertext its depth, scale and parts, and whether a rescaling or
  a relinearization is due; of the context the scales of the levels.
- Operations: sums, products, rescaling, modulus drop, relinearization, rotations,
  slot sums, inner products; in `rescale_mode::automatic` the operators prepare
  copies of their operands first.
- Hard: long sequences of operations where a flag, a level or a scale is left
  behind; checks that one overload has and another lacks.
- Correct means: operands that are added have one scale; the flags say what the
  data is; the automatic mode spends no more levels than the expression needs.

### BFV operators (`bfv/operator.cu`, `bfv/operator.cuh`)

- State: of each ciphertext the number of parts (`cipher_size_`, the memory), whether
  relinearization is due, the form (coefficients or NTT); of each plaintext its form.
- Operations: sums, products, relinearization, rotations (single, hoisted, composed
  of several steps), column exchange, Galois elements, key changes, powers of X,
  slot sums, inner products, transforms, logic gates, encryption and decryption.
- Hard: longer operations are made of inner calls, any of which may throw after
  others wrote; outputs are inputs; the flag and the memory disagree after a
  relinearization.
- Correct means: the slots of the result are what the operation promises; a call
  that throws leaves its objects alone.

### Residue arithmetic (`kernel/switchkey.cu`, `kernel/multiplication.cu`, `kernel/decryption.cu`, `*/context.cu`)

- State: none of its own; tables computed once by a context for every depth and
  every prime, kept in flat vectors.
- Operations: writing a digit over all primes, multiplying by a key, dividing by P
  and by the last prime, base extension and fast floor of BFV, rounding by gamma.
- Hard: offsets into flat tables that depend on depth, on the number of primes in
  P and on who else shares the table; corrections that matter at one value in many.
- Correct means: the phase of a ciphertext is what it was, up to a known noise.

### Multiparty computation (`bfv/mpcmanager.cu`, `ckks/mpcmanager.cu`)

- State: a secret key per party, a manager per party with a private seed, shares of
  one or two rounds, the assembled object.
- Operations: the stages of the public, relinearization and Galois keys, of joint
  decryption and of distributed bootstrapping.
- Calls: the sampler by seed, the key-generation kernels, the encoders.
- Hard: shares arrive as a vector in any order, missing or twice, of different seeds
  or rounds; a manager is made again between rounds.
- Correct means: what is assembled fits the sum of the secrets whenever everybody
  kept to the ceremony.

### Storage manager, objects and serialization (`storagemanager.cuh`, `{bfv,ckks,tfhe}/*key.cu`, `*text.cu`, `serialization_header.cpp`)

- State: of each object a place, a generated flag, its members, the identity of its
  context, a device and a host buffer; the copies still queued on the stream; an
  archive.
- Operations: `store_in_host`, `store_in_device`, temporary device copies of inputs,
  copies and moves, `save`, `load`.
- Hard: copies run later than the call that queued them; archives end anywhere;
  seventeen classes written one by one, each with its own order of doing things.
- Correct means: data, members and context of an object always belong together;
  memory is not given back while a copy still needs it.

### TFHE (`tfhe/operator.cu`, `tfhe/operator.cuh`, `kernel/bootstrapping.cu`)

- State: bits of a batch as LWE samples, the bootstrapping and the switching key.
- Operations: encryption, decryption, eight gates, each a linear combination, a blind
  rotation, an extraction and a key switch.
- Hard: roundings at a power of two, digits with signs, a noise that must not grow
  from gate to gate, outputs that are inputs.
- Correct means: every combination of gates decrypts to what Boolean logic gives.

### The other parts

| part | state and operations | hard | why it has no module |
| --- | --- | --- | --- |
| bootstrapping of CKKS, polynomial evaluation | levels and scales of each stage | precision | what it computes is an approximation by real numbers; its levels are constants of the configuration |
| random numbers | one generator, seeded draws | | its existence is in `MemoryPool`, what a seed repeats in `Parties`; the numbers are drawn freely |
| encoders and transforms | tables | | only the order of BFV slots (`SlotCalculator`) and the NTT order of joint keys (`SmallRing`) matter to a property |
| setters and checks of contexts | parameters before `generate()` | | checks on constants; the tables they lead to are in `ResidueNumbers` |
| precision analysis, default tables | statistics, constants | | nothing changes state |

## Modules

| module | models | proofs in |
| --- | --- | --- |
| `RotationKeys` | what a session promises about rotation keys, without locks, key objects or streams | |
| `SessionRotations` | how a session keeps that promise; refines `RotationKeys` | `SessionRotations_proofs` |
| `MemoryPool` | pools, buffers, vectors, RMM default, initialization and shutdown | `MemoryPool_proofs` |
| `LevelBudget` | what the automatic rescale mode promises, without scales | |
| `CkksLevels` | what every CKKS operation does to levels, scales and flags; refines `LevelBudget` | `CkksLevels_proofs` |
| `SlotCalculator` | what the BFV operators promise about the slots of a message | |
| `BfvOperators` | the checks, flags and polynomials of every BFV operator; refines `SlotCalculator` | `BfvOperators_proofs` |
| `ResidueNumbers` | polynomials by their residues; digits, key products, division by primes, with the contexts' tables | |
| `ResidueProducts` | the second base of BFV: extension, fast floor, decryption | |
| `CipherArithmetic` | ciphertexts of both schemes under sequences of calls, by the two modules above | |
| `ObjectClasses` | what tells the seventeen classes apart: moves, copies, archives | |
| `Objects` | the objects of one class, the stream and an archive | `Objects_proofs` |
| `SmallRing` | polynomials modulo one prime, in both forms | |
| `Parties` | the ceremonies of several parties over `SmallRing` | `Parties_proofs` |
| `NaturalFacts` | no part of the code: induction on the naturals, quotients and remainders | itself |
| `TfheGates` | TFHE from keys to gates, with exact numbers | `TfheGates_proofs` |

Each `MC...` module defines what a configuration needs and a module does not: symmetry
sets and the values of function constants. Operators whose comment calls them a
mutant or a slip are not part of the behaviour: each is a plausible mistake in the
operator it stands beside, used to show that a property notices it. Modules with
theorems, and those they use, have no RECURSIVE operators; the others have none
either.

### SessionRotations

The state is that of `SessionState` (`secret`, `present`, `galoisElt`, `generated`,
`storage`, `device`, `host`), the mutex (`readers`, `writer`), a control point and a
call of each thread (`pc`, `want`, `outcome`), the locals of `generate_rotations`
(`missing`, `extra`), the kernels still queued (`pending`) and the file last saved.

| code | actions |
| --- | --- |
| `rotation_keys` | `Call`, `AcquireShared`, `Check`, `AcquireExclusive`, `AcquireShared` again |
| `generate_rotations` | `PlanNothing`, `PlanRefused`, `PlanFirst`, `PlanExtra`, `BeginMerge`, `MergeStep`, `FinishMerge` |
| `generate_galois_key` | `GenerateStep` for each step, `FinishFirst` |
| an exception in it | `GenerateFails` |
| `rotate` and the like, under the shared lock | `Use` |
| `save` | `BeginSave`, `AcquireShared`, `Save` |
| `Galoiskey::store_in_host`, `store_in_device` | `StoreInHost`, `StoreInDevice` |
| the CUDA default stream | `StreamRuns` |

A step stands for a normalized shift and its Galois element. The key of the
conjugation is not a step: it is there when `generated` is. Reading
`storage_type_` before anything set it (it has no initializer) may find either
value, so `Found` is a set. Moving a key between memories happens only while all
threads are idle, as the documentation asks.

### MemoryPool

Each public operation of the pool holds its mutex throughout and is one action.
`heongpu::initialize` is not one operation: `initialize`, `use_memory_pool`,
`set_as_rmm_default` and the generator are separate actions, with allocations of
other threads in between. Resources have an identity (`hostPool 1`, `hostPool 2`),
so that a buffer returned to a pool that replaced its own is visible. Buffers go
through `pooled_*_allocations_`; a `DeviceVector` keeps the resource of its
construction for as long as it lives and is counted by that resource's adaptor
(`Counted`).

### CkksLevels

An object is the set of what it holds: empty until something is stored. A
ciphertext has `depth_`, `scale_` (as a logarithm), `rescale_required_`,
`relinearization_required_`, and beside them `data`, the scales its terms really
carry. The code has no such field; it is what decryption depends on. An operation
that can throw is a set: its result, or nothing. The private functions
(`rescaled`, `dropped`, `prepare`, `check_level_scale`, `run_automatic`) and the
leveled ones (`multiply_ckks`, `rescale_inplace_ckks_leveled`, ...) are operators;
the public operations compose them and are the actions, whose output may be any
of their operands. `SetRescaleMode` is the recurrence of `set_rescale_mode` for
`level_scales_`, an assumption on constants.

### BfvOperators and SlotCalculator

A polynomial is the vector of its slots modulo T and a ciphertext a sequence of
polynomials that decrypts by `c[1] + c[2] s + c[3] s^2`; `dom` is the form the data is
really in, `ntt` the form the flag says. Every operator is a function from a heap of
objects to one (`add`, `relinearize_inplace`, `rotate_rows`, ...): it makes its checks in
the order of the code (`Checked`), and an outcome other than "ok" stops what follows
but not what came before. Public operations call one of them and are the actions;
their outputs may be their operands. `rotate_bfv` looks for the key of a step, then
for those of the powers of two it is made of (`SignedPowersOf`), and works on its
output from the second on. `Calculator` is `SlotCalculator` with `value` being what the
ciphertexts decrypt to: the refinement says that every call that does not throw
does to the slots what its name says. `Unchecked` adds calls the operators accept
without a check (listed below); the run leaves them out.

### ResidueNumbers, ResidueProducts, CipherArithmetic

| code | definitions |
| --- | --- |
| `generate()` of a context: tables of levels, orders, divisions and of BFV | `generate`, of `LevelTables`, `OrderTables`, `DivisionTables`, `BfvTables` |
| `base_conversion_DtoQtilde_*`, `decompose_to_Qtilde` | `SinglePrimeDigit`, `ConvertedDigit`, `decompose_to_Qtilde` |
| `keyswitch_multiply_accumulate_leveled_kernel` | `multiply_accumulate`, `KeyIndex` |
| `divide_round_lastq_*` | `DivideByLast`, `divide_round_lastq`, `ModDown`, `rescale` |
| `fast_convertion`, `fast_floor`, `decryption_kernel` | the operators of those names |
| key generation | `relinkey_gen`, `galoiskey_gen`, `switchkey_gen` |
| `multiply`, `relinearize_inplace`, `rotate`, `keyswitch`, `rescale_inplace`, `mod_drop_inplace`, `decrypt` | `Multiply`, `Relinearize`, `Rotate`, `SwitchKey`, `Rescale`, `ModDrop`, `Decrypt` |

The tables are flat sequences with the offsets of the kernels, because the offsets
are what can be wrong. A product is the negacyclic product of coefficients; the
transforms are left out except for the tables that say which prime a limb is
transformed by: a limb transformed by another prime than its own is `Scrambled`.
Sums of fractions in floating point are exact. `Word` stands for the 64 bits of a
machine word where the code lets a difference wrap.

### Parties

A behaviour is one ceremony: keys, a decryption or a bootstrapping. `first` and
`second` are the shares of the parties, and the collector takes any vector of them
(`Lists`: any order, missing, twice). A seed is what the parties agree on
(`Common`), `blind` what a manager draws from its `new_seed_`, and `NewManager` makes it
again. `raised` tells a call that throws from one that reads memory that is not there
(`Faults`), after which a behaviour ends. Errors are zero, so that "fits the joint
secret" is an equation; one digit and one prime stand for all.

### ObjectClasses and Objects

`Classes` has a row for each class: whether its moves wait for the stream, whether a
new output gives back host memory, which members a copy takes over, what a move
leaves behind, in what order `save` writes and `load` reads, checks and commits.
Commands of the stream run in the order of the calls, so `memory` has their effect at
once, and `busy` is the host memory that commands yet to run copy from or to:
processor and pool must leave that alone. `promised` is what the calls so far have
made of an object; `Mixed` stands for data of two objects or none. The data of a Galois
key of BFV or CKKS are a map in each memory, into which every assignment, move and
load writes without clearing it (`Maps`, `Joined`); `Merged` is what such a map is when
it has elements of two keys. After a load that
failed half way or a move out of an object nothing is promised of it and a program
only destroys it.

| code | actions |
| --- | --- |
| an operation with an output, encoders, key generators | `Produce` |
| `store_in_device`, `store_in_host` | `StoreInDevice`, `StoreInHost` |
| `input_storage_manager` of one input | `Use`, `InPlace` |
| copy and move assignment | `Copy`, `Move` |
| `save`, `load` | `Save`, `Load`, for every prefix of the items |
| destruction and construction | `Renew` |
| the CUDA stream | `StreamRuns` |

### TfheGates

A register is a `Ciphertext`: whether it was encrypted and a batch of samples. The
definitions follow a gate down: the linear combinations (`NAND_pre_computation`, ...),
the blind rotation (`UniqueStepOne`, `StepOne`, `StepTwo`: digits with the offset of
`context.cu`, products with the key, and the turned accumulator), `SampleExtraction`,
`key_switching`. Arithmetic wraps at `TorusBits`. `MUX` adds two samples before the key
is switched. `MuxWithoutControl` is the call whose control was never encrypted:
its shape is an uninitialized integer, so a behaviour ends there. Messages are not
empty: a batch without bits would launch a kernel on an empty grid, which fails.

Beside the program stand the errors that it makes, worked out from those of its own keys,
digits and roundings: `TurnError` (rounding to powers of `X`), `BootstrapError` (what the
steps of the rotation add and turn), `SwitchError`. The ghost `within` says that every
call so far kept them to two budgets (`Bearable`, `MuxBearable`): `TurnBudget` for the
rounding, `FreshNoise` for what a sample is left with. No guard reads it. Both properties
are about the behaviours in which it holds, and `NoiseStaysBounded` says that no other
error is there: a sample whose digits were taken wrongly is off by more than what
`BootstrapError` accounts for.

## What the runs show

| run | instance | shows |
| --- | --- | --- |
| `SessionOwner` | 3 threads, 2 steps | every rotation finds its finished keys, every file is whole, and the protocol implements `RotationKeys`, for owners and evaluators |
| `SessionProgress` | 2 threads, 2 steps, failures and moves | steps stay listed across the lock that is dropped; nothing is generated a second time; every call returns |
| `SessionFailedKey` | 2 threads, 2 steps, failures | a divergence (below) |
| `PoolCallers` | 2 callers, a buffer of each kind, a vector, 2 pools | buffers go back, counters are exact, the default follows the pool, memory keeps its pool |
| `PoolFailures` | 1 caller, 3 pools, failures, a foreign default, empty vectors at shutdown | device buffers still go back; the default is never gone |
| `CkksAutomatic` | 2 ciphertexts, 5 primes of different sizes, top level 3 | scales are those of the levels; any two ciphertexts meet; manual code works; `LevelBudget` is implemented, at its costs |
| `CkksManual` | 3 primes, every operation in the manual mode | three parts imply a pending rescaling; the scale follows the data |
| `BfvCalls` | 2 ciphertexts, 1 plaintext, 8 slots, 3 calls | results have the slots they should; sizes match memory; no call fails on a size; a call that throws changes nothing |
| `CipherArithmetic` | 4 contexts, degree 8, 4 calls | key switching, rescaling, dropped primes, products and decryptions keep the phase |
| `PartiesTogether` | 2 parties, 2 seeds, both schemes | assembled keys, decryptions and bootstrapped ciphertexts fit the joint secret |
| `ObjectsMoved` | 2 objects of each of 17 classes, 2 contexts | data, members and context belong together; host memory outlives its copies; whole or unchanged loads |
| `TfheCalls` | 2 registers, 3 calls | truth tables of every gate after every gate; no noise beyond the errors worked out |

### Bounds

- Threads and callers: two threads race for a key; a third is needed for a reader
  beside a waiting writer, and one that saves. More of them add no new pair of
  control points; the proofs do not bound them.
- Steps: two steps let a call need one that is listed and one that is not, and let
  two threads ask for different ones.
- `PoolLimit`: two pools of a kind are the least that lets a buffer meet a pool that
  replaced its own; failing initializations make one more.
- Primes: four levels let two operands be two levels apart with a pending
  rescaling each; the level above the top exists too. The sizes of the primes of
  `CkksAutomatic` differ, so that every level has a scale of its own and a wrong
  level shows as a wrong scale.
- `MaxScale` bounds the scales the model follows; `Store` ignores larger ones, which
  the code computes with as well (messages then exceed their modulus, which is not
  modelled). In the automatic mode no scale reaches the bound.
- Ciphertexts: two and the output of an operation, which is one of them; the
  operations have no more than two operands.
- `BfvOperators`: the ring of degree 8 modulo 17 has two rows of four slots, the least
  with a step that is a sum of two powers of two. The key has the steps 1, 2 and -2:
  3 is composed, -1 has the same Galois element as 3 and cannot be composed.
  `MaxOps` is 3: a product, its relinearization and a call on the result. The last call
  writes c1 only (`LastResults`), and `VIEW Seen` leaves out what was called, which no
  guard reads.
- `CipherArithmetic`: degree 8 and primes that are 1 modulo 16. CKKS contexts have three
  primes in Q and one in P, and four and two; BFV contexts two and one, and two and
  two. Four and two give a digit of two primes at the top and digits that lose a
  prime at every depth; two primes in P are needed for the repeated division.
  `m_tilde` is 256 for 2^32, `Word` 2^20 for 2^64, and the internal primes have 9 bits for
  61. The estimate that adds a prime to Bsk adds one in both contexts. Four calls and
  two samples of random numbers: a product, its relinearization, a rotation, and
  another call on the result.
- `Parties`: the ring of degree 8 modulo 17 has an automorphism that is not its own
  inverse, which the order of 3 needs. Two parties and vectors of up to two shares
  have every order, a missing and a repeated share.
- `Objects`: two objects copy and move into each other and two contexts tell identities
  apart; a second message tells old data from new. Each class is a set of initial
  states of its own.
- `TfheGates`: a torus of 20 bits, digits of 7 bits, twice, a ring of 16, two bits of the
  small key, errors of the keys up to 8 of either sign and of fresh samples of 20000;
  three calls let the output of a gate go through two more. The budgets are 30000 and
  45000, and 2 * 30000 + 45000 is below an eighth of the torus. As with the parameters of the
  code, the worst that such errors could add up to is not (`MUX` alone would need 134656
  of 131072), but what they do add up to keeps to the budgets in every state of the run.

### Fairness

Only `SessionProgress` needs it. `Proceed` has weak fairness: a thread inside a
call runs on, and a CUDA call returns. Acquiring the mutex has strong fairness: a
mutex that is free again and again is got some time, which the blocking
primitives under `std::shared_mutex` give. No fairness is assumed for calls,
failures, moves or the stream. `WritersFirst` is an assumption on the mutex:
C++ leaves open whether a reader passes a waiting writer, and with a mutex that
lets readers pass, threads that rotate all the time can keep the writer waiting
forever; strong fairness would not help, as the mutex is then never free for it.
The other modules are called by one thread at a time and their behaviours are
finite or may stop anywhere, so that they ask for no progress; their
configurations that bound the calls turn the deadlock check off.

## Divergences

`SessionFailedKey` is a run in which TLC shows one: `generate_rotations` puts the key
with its list of steps into the session before the steps are generated. When that
throws, the steps are taken for present from then on and rotations by them fail.

The models have these as well. No run is about them; where a property would fail, its
statement or a constant excludes them by name.

Memory pool and sessions:

- An `initialize` that throws after it made the host pool leaves it in use
  (`DeviceMayFail`); the next `initialize` replaces it, and a host buffer of the first is
  returned to the second.
- `generate_rotations` merges new steps into the device map of a key that was moved
  to host memory, where `rotate_ckks` does not look (`MayMove`).
- `release()` looks at bytes in use only, so that `shutdown()` succeeds while a vector
  without memory still refers to the pool (`EmptyVectorsStay`).

CKKS:

- `mod_drop_inplace` of a ciphertext takes one that was not relinearized, which
  `mod_drop` refuses (`operator.cuh:1826`), and loses its third part.
- `multiply_plain_complex` with a fractional part multiplies the scale by a prime and
  does not say that a rescaling is due, so in the automatic mode the result does not
  have the scale of its level (`Fractions`).
- `multiply_plain` takes a ciphertext whose rescaling is pending in the manual mode.
- The factor of `dropped()` becomes 0 when the operand's scale exceeds what its
  target allows, and the message is lost without an exception; from 2^63 on its
  conversion to `int64_t` is undefined (`ScaledUp`).
- `mod_drop` of a plaintext to itself raises its depth by two (`DropPlain`).

BFV (the last three only with `Unchecked`):

- `rotate_rows_hoisted` never sets `ciphertext_generated_` of its outputs
  (`operator.cu:784-800`).
- `relinearize_inplace` leaves `cipher_size_` at 3 and three polynomials in memory; only
  the flag tells that the third is not part of the ciphertext. `SizeIsHeld` says that
  size and memory agree on it.
- `multiply_power_of_X` by X^0 and the transforms of an object already in their form
  write no output.
- `multiply_power_of_X` takes a ciphertext that was not relinearized
  (`operator.cuh:901-949`), writes two polynomials and keeps the flag of three, so that
  the next call may throw for the size of its operand. `NeverTooSmall` is about programs
  that do not do this.
- `one_minus` adds a one in coefficients to a ciphertext in NTT form; `rotate_columns` and
  the hoisted rotations do not look at the form; encryption takes a plaintext in NTT
  form, and decryption a ciphertext of three parts.

Parties:

- Stage 2 of a Galois key never sets `galois_key_generated_`, so that `save` refuses
  it; for a key made of a list of elements it assembles the zero key only; a share
  that lacks an element is read as an empty buffer (`Faults`).
- The BFV stages do not refuse an empty vector; `decrypt_partial` of BFV does not set the
  generated flag and leaves the two parts of an NTT ciphertext in different forms.
- Distributed bootstrapping of CKKS takes ciphertexts of another scale than the
  manager's and with complex slots, and changes their message.
- A manager that is made again between the rounds of a relinearization key gives a
  key that fits nothing, without a sign of it.

Objects:

- The comment of `set_initial_location` says that an object which was in host
  memory and is changed in place is brought back there unless the storage type is
  device (`storagemanager.cuh:86-91`). `input_storage_manager` brings nothing back: the
  object stays on the device whatever the storage type, and what was in host memory
  is left there as it was (`InPlace`).
- `Ciphertext<BFV>::store_in_device` gives back host memory while its copy is queued
  (`bfv/ciphertext.cu:52-74`); `HostMemoryOutlivesItsCopy` holds of the other classes.
- `save` of data in host memory, `copy_to_device` and `store_in_host` of several classes do
  not wait for the stream: a program has to (`HostReadable`).
- A load that ends early leaves most classes generated, with part of their
  members or zero data; `NeverHalfLoaded` names the three that stay as they were.
- BFV objects that were moved from stay generated.
- Assigning to a Galois key that has elements, by copy or by move, leaves those the
  other key lacks in its maps (`ckks/evaluationkey.cuh:749-782` and `820-842`, BFV alike),
  where rotations find them and `save` writes them. So do moves to a place whose map
  was left over. In the model such a key is `Merged`: `WholeObjects` says nothing of it
  and of what is copied, moved and saved from it (`Assigned`), and holds of Galois keys
  otherwise.

TFHE:

- `MUX` does not check its control input (`operator.cuh:722`), and no gate checks that the
  bootstrapping key was generated.

Residues:

- The arrays `last_ct[15]` and `partial[20]` of the kernels bound the primes of P and of a
  digit; no context is refused for exceeding them.

## What is proved

All theorems are about `Spec` of their module and for every value of its
constants that meets the named assumption of the module; those below that need
more say so.

**SessionRotations_proofs.** `TypeCorrect`; `KeysStayThere` and `NothingRegenerated`
(`NeverRegenerated`), whatever fails or is moved; `RotationsHaveKeys`,
`SavedKeysAreWhole` and `ImplementsPromise` where generations do not fail and the key
is not moved (with failures they do not hold, see above). The inductive invariant
has four parts. `MutexInv` ties the mutex to the control points: the readers are
the threads at `check`, `use`, `save`, and a writer excludes them. `GrowInv` says
why the second shared lock needs no second look: from the end of the generation
on the steps of the call are listed, and `galoisElt` only grows. `DataInv` says what
the first lock relies on: listed steps have data and finished kernels except
while a writer is filling them in. `ListInv` is the converse that holds even with
failures: data in either memory are listed, and what a writer plans to make are
steps of its own call, which a merge has not listed yet.

`ImplementsPromise` (`KeepsPromise`, the refinement of `RotationKeys`) is a simulation,
one lemma per action: a step of the first key, or one merged into a key, is a
`MakeKey`; the end of the first key makes that of the conjugation; locks, plans and
the stream stutter; a rotation, an error and a file are answers.

**MemoryPool_proofs.** `TypeCorrect` and `DeviceBuffersReturned`, whatever fails;
`BuffersReturned` and `UsageExact` where the pools can be made; `MemoryStaysAlive` where
vectors are destroyed before `shutdown()`. `DeviceInv` is the strengthening: the set
of pooled buffers is exactly the set of buffers whose source is the current pool,
so membership in it decides the destination; the counter is its cardinality plus
that of the filled vectors, so that `release` is refused exactly while one of them
is left; and a pool is only made when there is none. `HostInv` is the same for the
host, and needs that a host pool implies a device pool, which a failed start
breaks. `VectorsCurrent` says that vectors refer to the base or the current pool.
`DefaultStaysAlive` (`DefaultAlive`) holds whatever fails and whoever else sets the RMM
default; `DefaultIsFollowed` (`DefaultFollowsPool`) where the application leaves it alone.
Both rest on `DefaultInv`: a call that turns the pool on has found it or made it
before it does, so the resource HEonGPU allocates from never changes under a default
HEonGPU has set, except in the step that sets it again.

**CkksLevels_proofs.** `TypeCorrect` (no ciphertext leaves the chain of primes),
`ThreePartsWait` and `ScaleIsOfATerm` (`ScaleOfATerm`) in both modes. For applications that stay in the automatic mode
(`LevelScalesOnly`: plaintexts of the scales of their levels, no fractional complex
factors, no `scale_up`), on every chain and from every top level: `LevelScalesKept`;
`ScalesAreTrue`, if the factors between levels are at least 1 and below 2^63, which is
what their conversion to `int64_t` takes (`operator.cu:1069`, `FactorsFit`);
`CostsKept`; `ImplementsBudget`, the refinement of `LevelBudget`; `OperandsAlwaysMeet`
(`OperandsMeet`), that an operation with levels left never has to throw; and
`ManualCodeStays` (`ManualCodeWorks`), if the factors do and the scales of the levels
are more than 1 (`PositiveScales`: a scale of 1 is its own square, and a sum with a
pending rescaling would be right by accident). The invariant is
`Good` of every ciphertext and `GoodPlain` of every plaintext. One lemma per operator
says that it makes good objects of good ones and how many levels they have left;
the step of the recurrence that makes rescaling land on the next level's scale is
`NextScale`.

**Objects_proofs.** `TypeCorrect`, `ObjectsStayWhole` (that is `WholeObjects`, of
all but Galois keys assigned to while they had elements of another one) and
`HostMemoryStays` (`HostMemoryOutlivesItsCopy`), for any number of objects, messages and
contexts and any selection of the classes. Each operator that hands on memory has a
lemma: what it makes of the object it works on, and that the data of the others
stay where they are (`Works`). The invariant adds what makes a read of host memory
right: in a class whose `store_in_host` waits, the queue holds no copy to host memory,
and in one whose every move waits it is empty (`Quiet`). Of a Galois key it says that
neither of its maps has elements of another one (`Pure`) and that one which was not
generated has none (`Unused`). `SoundClasses` goes through the
tables of the seventeen classes: a copy takes the members an archive has with it,
and only `Ciphertext<BFV>` gives memory back without a wait. That an archive that is
whole is read back whole is the assumption `ArchivesLoad` about these tables: what
`SelectSeq` makes of them is computed by TLC, which evaluates the assumption in the
run of the module, and it is about constants only.

`HalfLoadedNever` (`NeverHalfLoaded`) needs the classes whose load checks before it
commits (`Firm`): for each, every prefix of its archive is refused before a member was
touched, and `Clear` says that nothing of such a class, in memory or in an archive,
is half done, so no copy or move can pass it on.

**BfvOperators_proofs.** `SizeIsHeldAlways` (`SizeIsHeld`), `ThrowsLeaveAloneAlways`
(`ThrowsLeaveAlone`) and `NeverTooSmallAlways` (`NeverTooSmall`, for programs that keep to
what no operator checks: `~Unchecked`), for every number of ciphertexts and slots,
every set of keys and steps and any number of calls. The invariant `Held` is that
every ciphertext holds as many polynomials as its size tells of, `NoneSmall` that
none has the flag of three polynomials and the size of two. Neither is about a
single step: a call is a chain of inner calls, one of which may throw after
another has written. So each operator has a lemma in terms of heaps: it threw and
the heap is what it was (`Threw`), or it wrote one object that is well formed (`Wrote`,
`Made`, `Painted`), and `Fine` is what a whole call may leave behind. The rotations that
are composed of powers of two, the loops of `sum_slots` and the hoisted rotations are
inductions over their lists of steps.

**Parties_proofs.** `TypeCorrect`, and all the run checks: `PublicKeyFits`
(`PublicKeyFitsTheVector`), `RelinKeyFits` (`RelinKeyFitsJointSecret`), `GaloisKeyFits`
(`GaloisKeyFitsTheVector`), `DecryptionOpens` (`JointDecryptionOpens`) and
`BootstrappingKeeps` (`BootstrappingKeepsMessage`): for every ring, every number of
parties, every vector of shares a collector may be called with, every set of
Galois elements, all messages and random messages. The argument has four layers.

- The operations of the ring, coefficient by coefficient, obey the laws of a
  commutative ring (`TimesDistributes`, `NegatedCancels`, ...), and a Galois
  permutation and both transforms keep sums (`PermutedDistributes`, `TransformPlus`).
- What a collector adds up, share by share, is a sum over the parties, each as
  often as the vector has it (`SumOfVector`); common factors, signs and
  linear maps come out of such a sum (`SumTimes`, `ProductsOfAll`).
- The inductive invariants (`PublicInv`, `RelinInv`, `GaloisInv`, `DecryptInv`,
  `BootstrapInv`) say where a result comes from: every share that is there was
  made by its party from a seed and a value of its manager, and the result is the
  sum over some list of them. The equation itself would not be inductive: it
  says nothing of the shares. `RelinInv` ties the second round to the
  first result its shares were made of, while managers are made again around it.
- The equations then follow for such a sum. In BFV, messages are rounded
  multiples of `Modulus / PlainModulus`: `Near(x, k, w)` says that every coefficient
  of `x` is, modulo `Modulus`, the scaled `k` but for `w` rounding errors. Sums add
  the errors, and `Rounded` gives `k` back as long as they fit; every mask is
  encoded twice and cancels only up to them.

The assumptions on the constants are evaluated by TLC for the instance of the run:
`RingAssumption` and `PrimeAssumption` (the modulus is a prime: every coefficient modulus
of the contexts is), `TablesAssumption` (the tables `generate_ntt_table` and
`generate_intt_table` make undo each other, which for a given prime and root is a
finite sum the library takes for granted as well; that the transforms then undo
each other on every element is proved), `PartiesAssumption` (what the secrets, seeds
and masks are), `GaloisAssumption` (the Galois elements are odd, so can be undone),
`MessagesAssumption` (one rounding error per party and one more fit into the modulus:
with the 60-bit primes and plain moduli of the code they do for far more
parties than there are).

**TfheGates_proofs.** `TypeCorrect`, `NoiseBounded` (`NoiseStaysBounded`) and
`RegistersOpenAlways` (`RegistersOpen`): for every width of the torus, every size of
the key, of the ring and of the digits, every key, mask, error and message and any number
of calls, as long as the errors of the calls kept to their budgets (`within`). The
arithmetic is that of integers up to a turn of the torus: `Near(x, y, e)` says that `x` is
within `e` of `y` modulo `Torus`. Up to the last step `e` is 0: the errors are followed
exactly, along sums, products and chains (`NearSum`, `NearTimes`, `NearThrough`), and a
budget comes in only where a bit is decided (`Absorbed`). Going up from there:

- The product modulo `X^N + 1` is associative and linear (`ProductTwice` and the lemmas
  around it), so the phase of a ring sample is a linear map. The digits of an
  element, each with its weight, come back to the element but for its remainder at
  the last of them (`DigitIs`, `DigitsGive`), which is where the offset is needed.
- One step of the blind rotation turns the phase by the element of the mask when the
  bit of the key is one and leaves it when it is zero, and adds `StepError`
  (`GainIs`, `StepPhase`). The induction over the bits of the key (`RotationIs`) carries an
  accumulator whose phase is a turned polynomial of levels plus the error so far
  (`Levels`, `StepLevels`); `RoundedPhase` says by what the sample is turned in all: by its
  phase plus `TurnError`. `BootstrapOpens` puts them together, and `SwitchedIs` is the
  same for the key switch and `SwitchError`.
- `LinearParts` says that the linear part of each gate, on inputs as good as fresh,
  leaves a phase that is clear of zero and of half a turn, by more than the budget of
  the rounding, on the side that the gate's truth table says. `GateIsFresh` and
  `MuxIsFresh` say that a gate whose errors keep to their budgets gives a sample as
  good as fresh; in `MUX` the two products are added before the switch.
- `GatesInvariant` says that every sample of a register stands for its bit with an error of at
  most `FreshNoise`, if `within`. The bound on the noise alone would not be inductive, nor
  would the decrypted bits: a gate is right about inputs that have both. NOT only
  negates; all other gates start again from what the bootstrapping leaves, whatever its
  inputs were.

Its assumptions are those of the module: the sizes fit (`ParametersAssumption`), keys are
bits and masks and errors integers (`KeysAssumption`, `MessagesAssumption`), and two
samples within the budget and one rounding fit an eighth of the torus (`ParametersFit`).
The only parameters of the code (`tfhe/context.cu:36-54`: n = 512, N = 1024, two digits of 10
bits, 32 bits) meet all of them, for instance with two budgets of 2^27.

No bound on the worst case is claimed, and none could be: with those parameters the
rounding to powers of `X` alone may reach 513 * 2^20 = 537919488, more than the eighth of
the torus, 2^29 = 536870912, and the rests of the digits twice that. That a key and
a sample do so is a matter of chance. As independent errors the roundings have a
deviation of about 2^23.2, and what a gate leaves one of about 2^23.9, `MUX` 2^24.3, so that
budgets of 2^27 are more than six deviations away; that estimate is neither modelled nor
proved. The theorems say what follows for a behaviour in which nothing exceeded the
budgets, which errors there are, and that none is left over from the gates before.

**NaturalFacts.** The library's theorems on induction take an operator as a
parameter, which no installed prover can instantiate. `Induction` states it for a
set instead, from the library's theorem on well-founded relations, and that carries
what can be proved here about data: that a recursive function is total, and
what a sum or a loop computes. The remainders and quotients of the kernels are
in the same module.

**What stays with TLC.** `CallsReturn` is a liveness property, and there are no rules here for fairness and
`ENABLED`. `KeepsMeaning` (the refinement of `SlotCalculator` by `BfvOperators`) and the
properties of `CipherArithmetic` are not proved yet; none of
them is out of reach in principle, since the inductions over coefficients they
need are of the kind done for `Parties` and `TfheGates`. In what is proved, noise is
no part of the model of `Parties`, and the transforms are tables with an assumption;
in `TfheGates` the products are exact, so that the transform behind them is not
part of the proof.

## What is not modelled

- Real numbers: the transforms of the CKKS encoder, noise and precision, the size of a
  message against its modulus, the wrap-around of a product at level 0, polynomial
  evaluation and bootstrapping of CKKS.
- The number-theoretic and Fourier transforms themselves, except their order in
  `SmallRing` and the choice of the prime in `ResidueNumbers`. TFHE's products modulo a
  60-bit prime, whose sums cannot wrap, are exact.
- In `CkksLevels` the checks that do not depend on levels and scales: the context and
  the encoding of operands, sizes of buffers, presence of keys. That an operation in
  place may throw after it rescaled its operand, and that `mod_drop` at level 0 reads a
  scale it has not got before it throws, are left out.
- In `MemoryPool` the sizes of the pools, which only decide whether a pool can be
  made (the loop that halves them included), and the release at process exit.
- In `SessionRotations` the arithmetic that normalizes a shift or takes it apart, which
  `BfvOperators` has for its steps.
- In `Objects` several threads and streams, archives of the first format, streams that
  do not throw. An empty stream is taken by the code for the first format.
- In `TfheGates` the tracked variances; `tfhe_bootstrapping_kernel`, which nothing launches.
  `decryptx3_bfv` and `decryption_kernelx3` are not called either.
- The parts listed in the inventory without a module.

## Plan

1. `SessionRotations`, `MemoryPool`, `CkksLevels` with their proofs: done.
2. `BfvOperators`, the residue modules, `Parties`, `Objects`, `TfheGates`: modelled and
   checked.
3. Proofs of `BfvOperators` (memory and failures), `Objects`, `Parties` and `TfheGates`:
   done. Left: `KeepsMeaning` of `BfvOperators`; the phases of `CipherArithmetic`.
4. Polynomial evaluation of CKKS on top of `CkksLevels`: levels and scales of each
   stage, and how many levels remain.
5. Two threads and two streams in `Objects`.

# A TLA+ model of clibnpm

clibnpm is three small C libraries: sockets (`libnpmnetwork`), a toolkit
(`libnpmtoolkit`) and cryptography (`libnpmcrypto`, derived from LibTomCrypt).
This directory holds TLA+ modules that model the parts of it whose behaviour is
hard to test, TLC configurations that check them on small instances, and proofs
of their main properties for every value of their parameters, checked by TLAPS.

## Inventory

| Component | State | Operations | What is hard |
|---|---|---|---|
| Fork server, `libnpmnetwork/server.c` | `g_serverSocket`; per process the locals `socket` and `client`, the descriptor table, the installed signal handlers | `create_new_server`: open, bind, `set_sigterm_handler`, listen, accept loop, fork; `close_resources` on a signal | parent and children interleave and share the kernel's sockets; signals at any step; `fork()` and `accept()` fail; descriptor numbers are reused |
| Hashes, `sha.h`, `md5.c`, `sha1.c`, `sha256.c`, `sha512.c` | `hash_state`: chaining value, `buf`, `curlen`, `length` | `*_init`, `*_process`, `*_done`, and `*_hash` for all three | every split of a message takes another path through the buffer; padding in one or two blocks; a counter that wraps; stale bytes in `buf` |
| Fortuna PRNG, `prng.c` | `prng_state`: pools, key, IV, counters, `ready` | start, add entropy, ready, read, done, export, import; `prng_create`, `prng_read`, `prng_close` | long sequences of calls: which entropy is where, when a reseed happens, which counters were encrypted |
| Socket client, `client.c` | none of its own; the kernel's connection and the caller's memory | `prepare_connection`, `connect_to_host`, `send_data_to_host`, `waiting_data_from_host` | bytes come in any pieces; ends, resets and signals race with them; an error of `recv()` is kept in an unsigned variable; short sends |
| AES, `aes.c`, `aes_tab.c` | `aes_key`: the round keys of both directions | `aes_key_setup`, `aes_block_encrypt`, `aes_block_decrypt` | loops of three lengths that are left in the middle; an offset computed from the length; rounds unrolled twice; tables that join two steps of the standard |
| AES modes, `aes.c` | the running IV | ECB, CBC | pointers that advance with the loop; one buffer for input and output |
| DES and 3DES, `des.c` | `des3_key`: three schedules for each direction | `des3_setup`, `des3_encrypt`, `des3_decrypt` | rotated words, two rounds per iteration, a schedule written backwards, the order of the keys in both directions |
| File utilities, `fileutils.c` | the file; per call its `FILE` | path, append, write, load | processes that write at once; failed writes and crashes after the file was emptied; short files |
| Conversion and strings, `convert.c`, `stringutils.c` | none | `hexa_str_to_byte_array`, `appendStringAtEnd` | results of `sscanf()` that are not looked at; bounds |
| Logger, internal log | a priority, a flag | | |
| Examples | | | users of the libraries |

Components interact by plain calls. `create_new_server` calls the application's
`request_handler` in a child; `prng.c` calls SHA-256 and one-block AES; the
processes of the fork server interact through the kernel only, and so do the
client and the server: through connections, backlog and resets. Processes that
use the file utilities interact through the file.

What makes each component correct:

* fork server: connections stay apart, each gets its handler once, the
  server socket is closed at the end, nothing leaks, a signal ends the server, no peer waits for ever;
* hashes: the digest is the digest of the padded message, however it was given;
* Fortuna: no entropy is lost or counted twice, pools follow their schedule, no
  counter is encrypted twice with a key, reseeds are in time;
* client: what was received is returned once and in order, a wait ends with the
  connection and not before it, and no descriptor is lost;
* AES: the schedule and the rounds are those of FIPS 197; decryption inverts
  encryption;
* 3DES: what FIPS 46 writes, with keys of two and three parts; decryption
  inverts encryption;
* AES modes: chaining and its inverse, in place too; only the output is written;
* files: after any crash the file holds a beginning of what was written and no
  mixture with old contents; a load gives the file's bytes, as far as it could
  read them;
* strings and conversions: nothing is written out of bounds, a pair of digits
  becomes its byte.

## Modules

| Module | Models | Checked with | Proved in |
|---|---|---|---|
| `ForkServer` | `server.c` and the kernel it relies on | `MCForkServer` | `ForkServerProofs` |
| `ConnectionService` | what the fork server promises: one life per connection | `ForkServer` implements it (a property of `MCForkServer.cfg`) | `ForkServerProofs` |
| `SocketClient` | `client.c`, with TCP and the host around it | by composition | |
| `Conversation` | the client composed with `ConnectionService`, that is, with what `ForkServer` implements | `MCClientSide` | `ClientSideProofs` |
| `FileUtils` | `fileutils.c`: write, append, load | `MCClientSide` | `ClientSideProofs` |
| `ToolkitStrings` | `get_file_path`, `convert.c`, `stringutils.c` | `MCClientSide` | `ClientSideProofs` |
| `HashStream` | `sha.h` and the four hashes, block by block | `MCHashStream`, `MCStreams` | `StreamsProofs` |
| `Words`, `Compression` | the four compression functions, round by round | `MCCompression`, `MCPrimitives` | `CompressionProofs` |
| `StandardRounds` | RFC 1321 and FIPS 180; `Compression` implements it | `MCPrimitives` | `CompressionProofs` |
| `Fortuna` | `prng.c` | `MCStreams` | `FortunaProofs` |
| `CryptoH` | what `crypto.h` gives to all | with the others | |
| `AesTables`, `AesKeySetup`, `AesBlock` | `aes_tab.c`, key setup and block cipher of `aes.c` | `MCAes`, `MCPrimitives` | `AesProofs` |
| `DesTables`, `TripleDes` | the tables of `des.c`, and its functions | `MCTripleDes`, `MCPrimitives` | `TripleDesProofs` |
| `Fips46` | DES as FIPS 46 writes it, the reference of `TripleDes` | `MCTripleDes`, `MCPrimitives` | `TripleDesProofs` |
| `BlockModes` | ECB and CBC of `aes.c` | `MCBlockModes`, `MCStreams` | `StreamsProofs` |
| `Arithmetic` | lemmas about quotients, remainders, induction and functions by recursion | | itself |

`PROJECT.json` maps every definition to the lines it stands for.

### ForkServer

A process is `Server` or one of `Children`, the slots that `fork()` can fill.
`pc[p]` is the point in `server.c` a process has reached; `sock`, `client` and
`gsock` are its copies of the locals and of `g_serverSocket`; `fds[p]` its
descriptor table; `caught` the signals whose handler is installed. The kernel's
side is `lstate` (the server socket), `queue` (the backlog) and `conn` (the
connections). `Release` is the one definition of what closing descriptors does:
a socket nobody refers to is closed, and with the server socket its backlog.

Each action is one system call of the code with the assignments up to the next
one, because a signal or another process can come between any two system calls:
`OpenSocket`, `BindSocket`, `SetSigterm`, `SetSigint`, `Listen`,
`AcceptConnection`, `AcceptFails`, `ForkChild`, `ForkFails`, `ParentClose`,
`ChildClose`, `HandlerReturns`, `CloseResources`. `Kill` is a signal without a
handler. The handler and the caller of `create_new_server` are the
application's: they open files (`OpenFile`), close what they were given
(`HandlerCloses`), return or exit. `Connect` is a peer.

`accept()` fails for a closed descriptor, when the handler of a signal has run
(`SA_RESTART` is not set, so it is interrupted), and with a full descriptor
table. A server socket that is closed says nothing about its port: `SO_REUSEADDR`
is not set, so connections that are still open in children, and those in
TIME_WAIT, keep the address from the next `bind()`, whose failure is `BindSocket`'s
choice. `fork()` fails when every slot is taken. A child that has ended keeps its
slot until the server ends, since nothing calls `wait()`.

`ConnectionService` is the server without processes, descriptors or signals:
its `status`, the connections waiting, and the phase of each. `Service` maps
the fork server to it; that the mapping is a refinement is a property of
`MCForkServer.cfg` and the theorem `ServiceIsImplemented`.

### SocketClient and Conversation

`SocketClient` is one process that calls the four functions of `client.c`. A
call that blocks is in `clientPc`; `link[c]` is what the client's kernel knows
of a connection, `sent`, `arrived` and `taken` count its bytes, `fins` and
`rsts` are the connections the host has ended in either way. Each action is one
system call with the assignments behind it: `Prepare`, `CreateSocket`,
`Connected`, `NotConnected`, `SendData` (which takes bytes, fails, is
interrupted or raises `SIGPIPE`), `Wait`, `RecvData` (with the `realloc()` and
`memcpy()` of a piece), `RecvEnd`, `RecvError`. TCP and the host are outside of
the repository: `DataArrives`, `EndArrives`, `ResetArrives`, `HostSends`,
`HostReads`, `HostEnds`. Data and the end arrive in order; a reset overtakes
what has not arrived; a host that closes with unread bytes resets.

`recv()` returns -1 into a `size_t`, so `RecvError` is the end of the process:
`memcpy()` of 2^w - 1 bytes does not come back. The argument `block` is passed
as the flags of `recv()`; 1 is `MSG_OOB`, which fails where there is no such
data.

`Conversation` composes the client with `ConnectionService`: `connect()` is
`Service!Arrive` of the same connection or `Service!Refuse`, and whatever the
service gives up (`done`, `dropped`, `reset`) ends at the host's side of TCP in
the same step. Since `ForkServer` implements `ConnectionService` (`ServiceIsImplemented`), the
client is checked against every server of this library, and not against one
written for the purpose.

### FileUtils and ToolkitStrings

Processes share one file. A call is in several steps: the opening (`OpenToWrite`
empties the file at once, `OpenToAppend`, `OpenToLoad`), the pieces that `write()`
and `read()` move (`WriteOut`, `ReadIn`; a piece of a write goes where the last
one of that process ended, an append to the end), a failed write that loses the
rest (`WriteFails`), a failed read that leaves the rest of the memory as it was
(`ReadFails`), the return (`WriteReturns`, `LoadReturns`; OK, whatever failed) and, at any
point, the end of the process with what its `FILE` still holds (`Die`). A byte
is the call and the position it comes from, so that the model says for every
byte of the file what it is. `append_to_file` takes `sizeof(content)` bytes, the
size of a pointer (`PtrSize`).

`ToolkitStrings` has no state to speak of: a step is a call on some string, and
`out` is what it writes, by offset. `ScanTwo` is `"%2hhx"`: digits, a digit with
a sign, `0x`, white space that is skipped into the next pair, or nothing.

### HashStream

The four algorithms share one control structure, and differ in a layout: size
of a block, room for the message in the last block, place of the length
(`MD5`, `SHA1`, `SHA256`, `SHA512`). `Algorithm` is such a layout. A byte is
represented by where it comes from (position of a message, padding, byte of an
encoded length, old memory) and the chaining value by the blocks compressed so
far, so that the model says for every byte of every block what it is. One
iteration of the loop of `HASH_PROCESS` is one action. `Width` is the number of
values of the 64-bit `length`. The byte order of the length is abstracted, and
the compression is that of the next module.

### Words, Compression, StandardRounds

A word is the set of its bits that are 1, of full size; `Sum` adds with the
carries. An action of `Compression` is one round (`RunRound`), one word of the
schedule (`ExpandWord`), the copy of a block (`LoadBlock`) or the sum at the end
(`Feedback`). The registers stay where they are, as in the code, and `Name` says
under which name a round knows them; SHA-1 and SHA-2 update two of them in place;
the order of the words of MD5 is the list in the code; the logical functions
are the short forms of the macros.

`StandardRounds` is what the documents write: registers that move by one place,
words made as they are needed from the sixteen before, the functions in their
long form, the order of MD5's words by formula. The refinement mapping `Rfc`
hides the schedule and renames the registers. The constants of the rounds and
the initial values are parameters of both.

### Fortuna

`prng` is the C structure. A pool is the sequence of the events hashed into it
since it was initialised; the key is the number of keys derived before it, that
is, keys derived in different ways are taken to be different; a block of the
generator is the pair of key and counter. `Fresh`, `WithEntropy`, `Reseeded`,
`Prepared` and `Generated` are the functions of `prng.c` on that structure, and
every call is one action. The histories `events`, `mixed`, `output`, `keys` and
`reads` say what went in, what was mixed into which key, what came out.

The errors of SHA-256 and AES that `prng.c` passes on are left out: AES gets 32
bytes of key, and `StateIsNeverRejected` is the theorem that SHA-256 does not
reject its state. `fortuna_done` pads the pools' hashes; it adds no entropy and
takes none away, so pools keep their events.

### AesTables, AesKeySetup, AesBlock

A byte is a set of bits, a word four bytes, XOR the symmetric difference. The
S-box is a constant with an inverse, MixColumns a constant that is linear and
has one: `AesTables` gives the 17 tables that `aes.c` uses by what they hold
(`Te0` .. `Te3` S-box and MixColumns together, `Te4_n` the S-box alone, `Td0` ..
`Td3` and `Td4` the inverses, `Tks0` .. `Tks3` the inverse of MixColumns alone).
That the numbers in `aes_tab.c` have this structure is a comparison of constants
and stays outside the model.

`AesKeySetup` has one action per iteration of each loop of `aes_key_setup`:
`Load`, `Expand16`, `Expand24`, `Expand32` (which leave their loop in the
middle), `CopyFirst`, `InvertOne`, `CopyLast`; `Refuse` is an early return. `rk`
and `rrk` are the pointers as indices. The structure is used again for further
keys and keeps what it held (`Garbage`, or an earlier schedule). `AesBlock` has
one action per half of the unrolled loop (`OddRound` from `s` to `t`,
`EvenRound` back) and one for the last round, for both functions. Its reference
is FIPS 197 written down separately: `IsExpansion`, `ShiftedSub`, `MixColumns`,
`AddRoundKey`.

### DesTables, TripleDes, Fips46

A word is the set of its bits. `DesTables` says what the tables of `des.c` do:
`pc1`, `pc2`, `totrot` as they are listed, `des_ip` and `des_fp` as the
permutations that their 2 x 8 x 256 entries add up to, and `SP1` .. `SP8` as an
S-box followed by P. The S-boxes are a parameter: any eight functions from six
bits to four.

In `TripleDes` an action is one call of `deskey` (`SetupEk`, `SetupDk`), one
iteration of the loop of `desfunc`, which is two rounds (`Iterate`), and what
lies between two of its three calls (`NextDesfunc`, with `Leave` and `Enter`, the
two permutations). The words stay rotated by one bit from one permutation to the
other, and are exchanged by name, as in the code. `Fips46` writes DES from the
document, bits numbered from 1 on the left, halves that change places in each
round, three passes of it for triple DES.

### BlockModes

Memory is a sequence of bytes, a pointer the index of one; input, output and
IV of a call lie anywhere in it, any number of bytes apart, and a block is the
`BlockBytes` bytes behind a pointer. The block cipher is a permutation per key with
its inverse, which is what `AesProofs` shows of the code. An iteration of a loop
is an action. `OverwritesUnread` and `OverwritesUnchained` say for which
positions of the buffers a loop destroys input that it has still to read. CBC
encryption works in place and with an output that begins before the input. CBC
decryption copies its next IV from the input after it has written the output
(`aes.c:505-509`): it works neither in place nor with an output that begins 1 to
15 bytes before the input, as when a short header is stripped on the way; the
properties exclude these positions, for texts of more than one block. A key is
one that was set up: the modes do not look at its `Nr`.

## Runs

Components that share no state are checked in one run: the MC module chooses at
the beginning of a behaviour which of them it is about (`subject`) and lets only
that one move. The state space is the sum of theirs, not the product. Their
type invariants are joined in one (`StreamsTypeOK`, `PrimitivesTypeOK`,
`ClientSideTypeOK`).

| Run | Question |
|---|---|
| `fork_server` | In every interleaving of a server, two children, three peers and two signals: do connections stay apart (`ChildIsolation`), is every call of the handler the first for an open connection (`HandlerGetsFreshConnection`), is the server socket closed once the server has caught a signal or ended and no child is just about to close its copy (`ServerSocketCloses`), has every drop a cause (`DropsAreAccountable`), does the server's descriptor table stay small (`ServerKeepsDescriptors`), and is this an implementation of `ConnectionService` (`ImplementsService`)? |
| `fork_server_live` | Does a caught signal end the server (`SignalEndsServer`), does an accepted connection end (`AcceptedConnectionEnds`), is a waiting peer answered (`QueuedPeerIsAnswered`)? |
| `not_started_is_negative`, `incoming_handled`, `signal_only_cleans_up` | Three statements of `server.h`, `README.md` and a comment that the code does not keep (below) |
| `client_side`: conversation | With a server that may turn connections away, replies in any pieces, resets and signals: does a wait return exactly the bytes of its connection, in order, also in memory that an earlier wait has filled (`ContentIsStream`); does it return only at the end (`ReturnsAtTheEnd`) and then at last (`WaitEnds`); does the process end for no other reason than those listed (`DiesOnlyOfResets`); is every open socket accounted for, those that a failed `connect()` leaves open included (`DescriptorsAreAccounted`)? |
| `client_side`: files | With two processes, failed writes, failed reads and a crash at any step: what is in the file (`FileIsAccounted`); does data keep its place when several write at once, and where do holes come from (`DataKeepsItsPlace`); does an undisturbed load give the file, or its beginning when a read fails (`LoadGivesTheFile`), within its memory (`ClientSideTypeOK`)? |
| `client_side`: strings | For all strings up to a length: does no function write behind its memory (`WritesFit`, a part of `ClientSideTypeOK`), does a pair of digits become its byte whatever stands around it, and are two strings joined (`StringsAreMade`)? |
| `wait_gives_the_data` | Does a wait give the data that was sent? Not after a reset (below) |
| `streams`: hashes | Does every split of a message into calls, with empty calls and with a second message in the same memory, absorb it exactly (`AbsorbedIsPrefix`), give the digest of its padding (`DigestIsOfPaddedMessage`) and return (`CallsReturn`)? Is a piece refused only for a message that is too long (`RefusedIsTooLong`)? |
| `streams`: Fortuna | In every sequence of calls: is entropy kept (`EntropyIsKept`), does pool x take part in every 2^x-th reseed, with an exact count of pool 0 (`PoolsFollowSchedule`), is no counter encrypted twice (`BlocksAreFresh`), are reseeds in time (`ReseedsInTime`)? |
| `streams`: block modes | With input, output and IV anywhere in memory, any number of bytes apart: does CBC chain (`CbcEncryptIsChained`), does decryption invert it (`CbcDecryptInverts`), is only the output written (`OnlyOutputIsWritten`)? |
| `keep_zero_closes`, `ecb_every_block` | Two more statements that the code does not keep (below) |
| `primitives`: AES | After any two key setups in one structure, with keys of any length: are the round keys those of FIPS 197 (`KeyIsExpanded`) and of the inverse cipher (`InverseKeyMatches`), does a block go through the rounds of FIPS 197 (`EncryptsAsFips197`), and does decryption give it back (`DecryptInverts`)? |
| `primitives`: 3DES | With keys of three, two and too few parts, one setup after another in one structure: is a block encrypted as FIPS 46 says (`EncryptsAsFips46`), does decryption give it back (`TripleDecryptInverts`)? |
| `primitives`: compression | Round for round, do the four functions do what the standards write (`ImplementsStandard`)? |

### Bounds

* `fork_server`: two children are needed for a connection to be in two of them,
  a third connection for a number to be reused while both run, four descriptors
  for standard input, the server socket, a connection and a file; two signals
  for one to meet a process that has already handled one. Children and
  connections are symmetric; the properties of this run name none of them.
* `fork_server_live`: one child and four descriptors, without symmetry, which
  is unsound for liveness. One slot and three connections fill the process
  table, one place in the backlog makes a peer wait.
* `streams`, hashes: blocks of 8 bytes, room 5, length at 6 (a gap, as in SHA-512),
  26 bytes (more than three blocks), a counter that wraps after 16 bytes, and
  a call of 64 bytes that makes `sha.h:90` report an overflow. A call that is
  refused for overflow may exceed `MaxBytes`. Two messages make the second one
  find the buffer full.
* `streams`, Fortuna: three pools and four reseeds, so that each pool is drained and the
  highest waits for its reseed; five events, so that the index wraps and pool 0
  reaches 64 bytes; a round of two reads; six keys. `fortuna_start`, create and
  import begin again at any time.
* `primitives`, AES: bytes of two bits, so that S-box and MixColumns are tables of 4 and
  256 entries; MixColumns is the matrix of AES over GF(4), the S-box does not
  commute with it. The number of words, rounds and loop iterations is the real
  one. Two keys, a refused length, two setups (a short key after a long one),
  two blocks (one to encrypt, one to decrypt).
* `streams`, block modes: blocks of two bytes, seven bytes of memory, up to three
  blocks per call, so that buffers may be apart, the same, or overlap either way by
  whole blocks or a part of one; an output one byte before the input is what 1 to 15
  are for blocks of 16. Lengths 0 and 1 bytes are refused, 0 by CBC only; two calls, so that what was encrypted is decrypted.
* `primitives`, 3DES: the S-boxes of the standard, the example of NIST SP 800-67
  for keys and block (that `Fips46` gives its answer is the assumption
  `ExampleAnswer`, which TLC evaluates), a key of two parts and one that is
  refused; two setups, two blocks.
* `primitives`, compression: words of 32 and 64 bits and all 64 or 80 rounds; two
  blocks, so that the sums at the end are read again. Constants and blocks have
  their bits scattered: a function in the wrong round, a register under the wrong
  name or another rotation gives other words.
* `client_side`, conversation: two connections and one descriptor, so that a
  failed `connect()` uses up the table; a backlog of one, so that one is turned
  away; three bytes in pieces of up to two, so that a wait gets several; three
  calls, so that a send makes the host reset, a second one meets the reset and a
  wait follows, or a second wait gets the memory of the first; one signal.
* `client_side`, files: two processes are needed for a mixture; three calls for a
  write over a write with an append or a load between; two bytes for a write or
  a read that stops halfway: a failed write makes the file shorter than a load, an
  append longer. Pieces are of any length up to that.
* `client_side`, strings: two digits, one of which is 0 (for `0x`), a character
  that is no digit, signs and white space; four characters are two pairs.

`CHECK_DEADLOCK FALSE` is in all configurations: the server ends, and the other
models stop at their bounds.

### Fairness

`ForkServer` is checked for liveness under weak fairness of the steps of every
process (the scheduler runs what can run) with two assumptions about code that
is not in the library: a handler ends (it returns or exits) and the application
exits after `create_new_server` has returned. Without the first a peer's
connection may stay open for ever; it is the handler's. Peers and signals are
not fair. `HashStream` has weak fairness of the loop: a call that was made is
executed. `Conversation` has weak fairness of the loop of
`waiting_data_from_host` (`ClientRuns`) and of TCP, which delivers what was sent
and tells what has ended (`NetworkRuns`); the host and the caller are not fair:
`WaitEnds` speaks of waits whose connection the host has ended.

### What the code does not do as it says

* `server.h:41-42`: "Return negative int if the server cannot be started".
  `socket()` may return 0, which the code takes for a failure and returns;
  `listen()` may fail, after which 0 is returned
  (`not_started_is_negative`).
* `README.md:58-59`: the handler handles "any incoming client connection".
  Ended children fill the process table; `fork()` then fails and connections
  are closed without a call, although no child runs (`incoming_handled`).
* `server.c:41`: the signal handler is there "to cleanup". In a child it closes
  whatever has the number of the server socket, which the child has closed
  itself (`signal_only_cleans_up`).
* `prng.h:70-71`: "If keep == 0, the PRNG will be close and unusable after this
  call." `prng_read` takes the number of bytes for an error code and returns
  first (`keep_zero_closes`).
* `client.h:61-62`: "Wait and read any data sent from the SOCKET." When `recv()`
  fails, the process ends: after a reset, as when the server turns the connection
  away, after a caught signal, or when `block` is not 0 (`wait_gives_the_data`).
* `aes.h:47` and `:50`: the ECB functions work on "multiple block". They do not
  advance their input (`ecb_every_block`).

Without a run of their own, since one look at the lines settles them:
`send_data_to_host` returns 0 after a short send, which `client.h:57` excludes;
`get_file_path` copies the terminating byte of the path, so that the string
in `out` is the path alone, and drops the last character of the name
(`fileutils.c:47-70`; `PathOf` does the same); `append_to_file` writes
`sizeof(content)` bytes, not the length of the string (`fileutils.c:89`; `Text`
does the same); only the first address of `getaddrinfo()` is tried
(`client.c:72`).

## Proofs

All proofs hold for every value of the constants that satisfies the named
assumptions of the modules. Every safety invariant, every action property and
both refinements that a run checks are theorems; what is left to TLC is listed
at the end of this section.

A run is about several components, of which one moves. `StreamsTypeCorrect`,
`PrimitivesTypeCorrect` and `ClientSideTypeCorrect` are the type invariants of
the three runs; their proofs show that a behaviour of the run is a behaviour of
each of its components (`StreamsAreParts`, `PrimitivesAreParts`,
`ClientSideIsParts`), so that the theorems about the components hold in it.

**ForkServer** (the assumptions of the module: the server is not a child, the bounds
are numbers, connections are not other kinds of files). The properties are not
inductive: that no two children share a connection depends on what a child has
inherited, that on what the server had open when it forked, and that on its
having closed every earlier connection. `IInv` says, in named parts, where in
which process's table the server socket and each connection can be at each
location (`Places`, `ListenerPlaces`, `ClientIsFresh`, `ForkingAlone`, ...),
how the kernel's state follows from the tables (`KernelKnowsHolders`,
`QueueIsExact`, `HeldAreAccepted`) and how the histories follow from the
locations (`ServedByChild`, `ParentClosesItsCopy`). The proofs first state what
an action does to a single entry of the tables, then go through the parts
action by action. From `Invariance` follow `TypeCorrect`, `Isolation`,
`ServerSocketIsClosed`, `DropsHaveACause`, `DescriptorsDoNotLeak` and
`HandlerCalledOnce`. TLC checked `IInv` on the instance of `fork_server` before
it was proved.

`ServiceIsImplemented` is the refinement: from `IInv` and `SocketIsLive` (no
server socket before `socket()`, and none closed while a process has it) every
step of the server is a step of `ConnectionService` or none
(`ServiceSimulated`). All ways to lose descriptors, that is, a `close()`, the
end of a process, a signal, are one lemma (`ClosingStep`): a process has one
connection at most, so one ends at most, and the last holder of the server
socket takes the backlog with it.

**HashStream** (`AlgorithmAssumption`: 0 < room <= length < block;
`WidthAssumption`). `HInv` joins the prefix property with the bit count and the
padding. `CompressExtends` is what both ways through the loop share;
`TakeBlockStep`, `TakeBytesStep` and `DoneStep` follow the positions of bytes
through the buffer; `Arithmetic` has the remainders (`WrapsOnce`: a counter that
wraps at each step equals one that wraps once). Theorems: `HashTypeCorrect`,
`NothingLostOrRepeated`, `DigestIsExact`, `OnlyTooLongIsRefused`,
`StateIsNeverRejected`, for messages
of any length and any calls; `TheFourAreAlgorithms` says that the layouts of MD5,
SHA-1, SHA-256 and SHA-512 satisfy the assumption, which is why one small layout
is enough for TLC.

**Fortuna** (`FortunaAssumption`: at least one pool, the limits are numbers).
`FInv` joins the type, `EntropyIsKept` and `BlocksAreFresh` with two facts that
make them inductive: `wd` stays below `FORTUNA_WD` and bounds the reads since
the last reseed (`RoundIsShort`), and every key in the histories was replaced
since (`UsedKeysAreOld`). `AddingKeeps` and `DrainingKeeps` follow the events
through `WithEntropy` and `Reseeded`; `OneCallIsFresh` needs that one call
takes no more blocks than the counter has values. The schedule of the pools is a
second invariant beside it, about the structure that a call leaves (`Scheduled`):
no entry of a pool has waited through a reseed that its pool takes part in. That
the loop of a reseed, which stops at the first bit that is set, drains pool x
exactly when 2^x divides the number of the reseed is an induction over x
(`DrainedIs`, `NextBit`), and the length that makes a read reseed is a sum over the pool
(`LengthsAre`, `LengthOfAppend`); `Power` and `LengthOf` are recursive functions,
and `Arithmetic` shows once what such a definition gives (`Recursion`,
`Induction`). Theorems: `FortunaTypeCorrect`, `NoEntropyIsLost`,
`OutputNeverRepeats`, `ReadsReseed`, `PoolsAreScheduled`.

**AES** (`SBoxAssumption`: the S-box has an inverse; `MixAssumption`:
MixColumns is linear and has one; the sets of keys and blocks are arbitrary).
`LinearByBytes` is why a sum of table lookups is a step of the standard; from it
follow `EncryptRoundIs`, `DecryptRoundIs` and the lemmas about the last rounds.
`AInv` says of the key setup where the pointers are (`SetupPointers`), which
words are an expansion and which round keys are inverted so far
(`InvertedSoFar`); of the block functions, that the history of an encryption ends
in the current state (`TraceIsCurrent`) and that a decryption is at the state
of the encryption as many rounds before its end, after SubBytes and ShiftRows
(`DecryptionRetraces`). `RetracesFirst`, `RetracesRound` and `RetracesLast` are
the three kinds of round of the equivalent inverse cipher. Theorems:
`AesTypeCorrect` (no pointer leaves its array), `KeysAreExpanded`,
`InverseKeysMatch`, `EncryptsFips197`, `DecryptionInverts`.

**BlockModes** (`CipherAssumption`, `MemoryAssumption`). `BInv` adds to the
properties where the pointers are, what `tempIv` is combined with next
(`TempIvIsNext`) and that the text encrypted last is chained
(`SealedIsChained`). Blocks of any size at any distance of bytes are a matter of
positions: `BlockLayout`, `BlocksApart` and `BlockInText` say which bytes a block
has and when two blocks share one, `InputIsAhead` and `InputIsUnread` that what an
iteration reads was not written by the ones before it, `LoopStep` and
`LoopKeepsWritten` what an iteration changes. Theorems: `BlockModesTypeCorrect`, `NothingElseIsWritten`,
`CbcEncrypts`, `CbcRoundTrip`.

**TripleDes** (`DesBoxAssumption`: the S-boxes are any functions from six bits
to four; keys, blocks and garbage are arbitrary). `DesInv` says which schedules
are made (`SchedulesAreMade`; that of decryption is the other one backwards,
which the proof gets from the schedule's definition), that the history of an
encryption makes the code's steps (`HistorySteps`), that it ends where the
encryption is (`HistoryIsCurrent`), and that a decryption is at the state as many
steps before its end, with the words exchanged (`DecryptionRetraces3`). An
iteration undoes itself under the reversed keys whatever the S-boxes are; the
permutations undo each other.

That encryption is the one of `Fips46` rests on four comparisons. A word of the
code is a half of the standard turned by one bit (`HalfOf`): `EnterIsIP` and
`LeaveIsInverse` are the two permutations. Two words of a schedule are a round
key of the standard in the order of the tables (`KeyPlace`, `KeyFits`): with them
`RoundWord` is the cipher function (`RoundIsCipherFunction`) and an iteration two
rounds (`IterationIsTwoRounds`). The standard shifts the halves of the key before
each round, the code turns them by a total once: `Turned`, `ShiftedKeysAre`. And
`cookey` moves the bits that PC2 has chosen to where `KeyFits` wants them
(`CookedFits`), backwards for the middle key (`ScheduleFits`). `DesfuncIsCipher`
joins them by induction over the rounds. The history of an encryption holds
three such calls; `EncryptionStored`, inductive beside `DesInv`, says that what
was stored is its end. Theorems: `DesTypeCorrect`, `EncryptionIsFips46`,
`TripleDecryptionInverts`.

**Compression** (`CompressionAssumption`: initial values and constants of the
rounds are words; blocks are what the caller chooses). `CInv` says that the words
made so far are those of the standard for the block (`WordsAreScheduled`), and
that the schedule is complete when the rounds begin. A word is a set of bits, so
that its sum is defined by carries: `CarryStep` and `SumBit` are the induction
over the bits that `SumCommutes` and `SumAssociates` need, since the code adds in
another order than the documents. `NextNames` says that renaming the registers is
moving them by one place; `SameLogic` and `SameSigma` compare the
short forms of the macros with the long ones; `Md5Agrees`, `Sha1Agrees` and
`Sha2Agrees` are a round each. Theorems: `CompressionTypeCorrect` (no round reads
a word that was not made) and `CompressionImplementsStandard`, the refinement
step by step: a word made ahead is a stutter, a round a round.

**Conversation** (`ClientAssumption`, `ConversationAssumption`). What is checked
is not inductive: that a returned wait took everything depends on what an end
that has arrived says of the bytes before it. `ConversationInv` adds
`LinksFollow` (what the client's kernel knows of a connection has happened: an
end stands behind all bytes; a reset was sent because bytes were unread or the
server turned the connection away), `NoLinkYet` (a descriptor for which `connect()`
runs or has failed is of an unused connection) and the backlog's part of the
service (`ConversationTypes`). `BytesJoin` is why a piece continues the memory.
Theorems: `ConversationTypeCorrect`, `ContentIsExact`, `DeathsHaveACause`,
`DescriptorsAccounted`, `WaitReturnsAtTheEnd`, for any number of connections,
descriptors, calls and bytes.

**FileUtils** (`FileAssumption`). `FileInv` adds to the properties what a process
has still to write (`PiecesFollow`), that a write which nobody disturbs has the
file for itself and where it stands (`WritesAlone`), and what an undisturbed load
has read so far, before and after a read that fails (`LoadsFollow`). `OverlaidIs` says what a piece does to the
file; `PieceKeeps` is the step of all writers, `AppendedIsAccounted` the
remainders of whole appends. Theorems: `FileTypeCorrect`, `FileAccounted`,
`DataInPlace`, `LoadIsTheFile`, for any number of processes and calls and data of
any length.

**ToolkitStrings** (`StringsAssumption`: the bound on the lengths is a number,
and neither digits nor the other characters are the NUL or one of the characters
that `sscanf()` treats in its own way). `HoldsString` says that memory of a size
holds a string and its NUL; `StrcatAppends` and `AppendMakesBoth` follow it
through `appendStringAtEnd`, `PairIsScanned` shows that two digits are read as
their byte whatever stands behind them, `PathFits`, `BytesFit` and `StringFits`
are the bounds of the three functions. Theorems: `StringsFit`, `StringsMade`, for
strings of any length.

TLC has checked `DesInv`, `EncryptionStored`, `ConversationInv` and `FileInv` on
the instances of the runs as well.

**Only model-checked**: the liveness properties `SignalEndsServer`,
`AcceptedConnectionEnds`, `QueuedPeerIsAnswered`, `CallsReturn` and `WaitEnds`,
which are statements about fair behaviours; and the violations of the section
before.

## Plan

All that the inventory plans is modelled. What could be added is the number of
bytes that a short send has taken, with a caller that sends the rest, which the
0 that is returned does not let it do.

Of the proofs, what could follow is that the assumptions which one component
makes about another are theorems about that one's operators: that the rounds of
`AesBlock` under a schedule and its inverse are the permutation and the inverse
that `CipherAssumption` asks for, for every block and not for the one that was
encrypted last.

## Not modelled

* The numbers in the tables of AES and DES and the constants of the hashes: the
  models take the tables by what they hold. Whether the numbers agree with that
  is a comparison of constants, not a behaviour.
* How many bytes a short send takes; addresses behind the first one.
* Hashes of 2^64 bits and more: `length` wraps and the digest is that of the
  length modulo 2^64, which is how `DigestIsOfPaddedMessage` pads. `sha512.c:176-177`
  assumes that they do not come.
* What `fortuna_done` leaves in the pools after their hashes are padded, and reads
  of 2^31 bytes and more, whose number of bytes `prng_read` cuts to an `int`
  (`prng.c:51-53`).
* Arguments that are NULL in `get_file_path` and `hexa_str_to_byte_array`
  (`fileutils.c:40-43`, `convert.c:37-40`), which are refused before anything else.
* Calls of AES with a key that was never set up.
* `malloc()` and `realloc()` that fail: the code does not look at them, and what
  follows is undefined.
* The loggers (formatting and output behind a priority or a flag), the examples
  and the build files.

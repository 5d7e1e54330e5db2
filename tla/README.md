# A TLA+ model of infix_search

infix_search stores part numbers in a compressed prefix trie and answers
*infix* queries: which part numbers contain this key, wherever it lies in them?
A thrift service distributes the search over workers that each hold a part of
the data. The repository also carries dawgdic, a library that builds minimal
automata and lays them out as double arrays, with its own command line tools. This
directory models the search core down to the bytes of a node, a worker that
answers from it, the master, the processes of the service from their command lines
to the answers their clients take from the wire, and dawgdic's tools from a lexicon to
their answers. TLC checks the models. TLAPS proves, for every alphabet and every file,
that the trie is well formed and implements a set of words and that a worker's rows are the lines
of its file, and, for any number of threads, workers, calls and crashes, what a master answers; and, for any
processes, command lines and requests, that clients and servers stay in step.

## The system

| part | code | state | operations |
|---|---|---|---|
| trie | `cpp/search.cpp` `add`, `cpp/node.cpp` `node2_t` | nodes: a buffer with flags, the number of neighbors and the tail (edge string), and the neighbors (slot 0 the parent, the others the children); `head`, `traverse` | `add(word)` |
| index and query | `cpp/search.cpp` `index_trie`, `find_path`, `find_path_util`, `traverse_up`, `traverse_down_util` | `tpm`: pair of adjacent characters -> vector of (node, position) | `index_trie`, `find_path(key)` |
| rows | `cpp/search.cpp` `read_input`, `extract_row` | `row_lookup_map`: part number -> (offset, length), `pFile`, `row_buffer` | reading a line, `extract_row(key)` |
| driver | `cpp/driver.cpp`, `search_t::run` | none | load, then every query in turn; or `find_in_file` |
| master | `thrift/service-cpp/RemoteInfixSearch_server.cpp` | `host_list` of containers, each with one connection | `registerService`, `deregisterService`, `findMatches` |
| worker | the same file | a `search_t` | `findMatches` |
| start-up | `main`, `start_server`, `start_http_server`, `run.sh` | type, port, dataset, listening socket | once |
| generated code | `thrift/service-cpp/RemoteInfixSearch.cpp`, a copy in `gen-cpp` | the tokens in a connection | a client's `send_`/`recv_`, the processor's `process_` |
| clients | `client.cpp`, `thrift/java_client` | none | one call |
| dawg builder | `dawgdic/src/dawgdic/dawg-builder.h` | unit, base, label and flag pools, hash table | `Insert`, `Finish` |
| double array | `dictionary-builder.h`, `link-table.h`, `dictionary.h`, `dictionary-unit.h` | units, extras (the list of free units), link table | `Build`, `Follow`, `Find` |
| guides and completers | `guide-builder.h`, `ranked-guide-builder.h`, `completer.h`, `ranked-completer-base.h` | a child and a sibling label for each unit; stack, queue and candidates of a completer | `Build`, `Start`, `Next` |
| dawgdic tools | `dawgdic-build.cc`, `dawgdic-find.cc`, `gary/build.cpp`, `gary/search.cpp` | the file between the two | build from a lexicon; answer a query |
| Java port | `java/.../CompactNode.java`, `Node.java` | 32-bit units | bit fields |
| Hadoop job | `hadoop/.../Sorter.java` | none | sorting rows |

How they meet: `read_input` hands every line's part number to `add`, notes where
the line lies, and at the end calls `index_trie` once. From then on the trie and
`tpm` never change; `find_path` reads both, `extract_row` reads the map and the
file. A worker's `findMatches` is `find_path` followed by `extract_row` on each
result. The master's `findMatches` starts one delegator thread for each
registered worker and joins them; a delegator is a client of the worker, through the
generated code. The search core is single-threaded; all the concurrency of the system is
between processes and in the master. The dawgdic tools are sequential programs that meet in a file.

What is hard:

- **Long sequences of legal calls.** `add` decides from first characters only
  which child to follow, forks move subtrees, and all later operations rely on
  the shape. A wrong step shows only for certain triples of words. The same
  goes for the dawg's merged states and the units that merged states share.
- **Edges of strings.** The positions of a key in a tail, across an edge, at the
  end of a leaf, in a one-character key, before the first character.
- **Stale state.** `row_buffer` between calls, `it`/`exact_match` between
  queries, an answer left in a connection, a completer started again, a block of
  units taken from the list of the free ones while that list is being changed.
- **Interleavings.** `start_http_server` runs ten handler threads over one
  `host_list` without a lock, and delegators share connections.
- **Failure.** A worker may crash at any step of a delegator and come back, and
  an exception leaves the delegator before it closes the connection.
- **Waiting.** There are no timeouts: a circle of masters or a connection that is
  never closed holds a thread for ever.

`PROJECT.json` lists these hazards line by line with the properties that watch
them.

## The modules

| module | models | runs |
|---|---|---|
| `InfixTrie` | `search_t::add`, one action per way an iteration of its loop can end | `trie` |
| `WordDictionary` | what `add` promises without a trie: a growing set of words | (refined by `InfixTrie` in `trie`) |
| `TrieDictionary` | the refinement mapping of `InfixTrie` to `WordDictionary` | `trie` |
| `InfixTrie_proofs` | TLAPS proofs about `InfixTrie`, and of the refinement in `TrieDictionary` | |
| `SequenceLemmas` | lemmas about `SelectSeq`, folds, sequences joined together, finite sets, and recursion along a rank, which the other proofs cite | |
| `InfixSearch_proofs` | TLAPS proofs that what the search finds is right and that index and search are complete, resting on those about the trie | |
| `SearchWorker_proofs` | TLAPS proofs about the worker's rows and answers, resting on those about the search | |
| `MasterService_proofs` | TLAPS proofs about the master | |
| `SearchService_proofs` | TLAPS proofs about the wire between the processes, and what comes over it | |
| `DawgBuilder_proofs` | TLAPS proofs about the builder's stack, the order of its keys, its hash table and the automaton's minimality | |
| `DawgKeys_proofs` | TLAPS proof that the builder holds the accepted keys, resting on those | |
| `NodeLayout` | `add` over the bytes and arrays of `node2_t`; implements `InfixTrie` | `node` |
| `InfixSearch` | extends `InfixTrie` by `index_trie` and `find_path` | `search`, `exact_key_lost` |
| `RowStore` | `read_input`'s offsets and `extract_row` | (part of `worker`) |
| `SearchWorker` | `InfixSearch` and `RowStore` composed into a worker | `worker` |
| `MasterService` | the master, its delegators, connections and workers | `service`, `service_http` |
| `RemoteInfixSearch` | the generated code: structs, a client's answer, a processor's reply | (part of `processes`) |
| `SearchService` | processes from `main` on, their sockets, servers and clients | `processes`, `listens_where_told` |
| `DawgBuilder` | `dawgdic::DawgBuilder`: `Insert`, `FixUnits`, the hash table, `Finish` | `dawg` |
| `Dictionary` | the double array: `Follow`, `Find` | (part of the next three) |
| `DictionaryBuilder` | extends both by `DictionaryBuilder` and `LinkTable` | `dictionary` |
| `Guides` | extends it by the two guide builders | `completion` |
| `Completers` | `Completer`, `RankedCompleterBase` | `completion` |
| `KeyLookup` | what the tools promise without automata: queries to a map | (refined by `Dawgdic` in `completion`) |
| `Dawgdic` | `Guides` and `Completers` composed into the tools | `dictionary`, `completion` |

Operators whose comment says *seeded fault* are the mutants of `PROJECT.json`:
plausible bugs that show that a property can fail. Nothing else uses them.

### InfixTrie

A node is its number in the order of allocation. `tail`, `parent` and
`children` are maps over the nodes and `is_leaf` is a set of nodes; the order of
the neighbors array is the order of node numbers, because slots are only filled
in allocation order. `AddBegin(w)` is the call, with the head made on the first one;
`AddExact`, `AddDescend`, `AddForkTwo` and `AddForkOne` are the four ends of an
iteration, each with the trailing `set_parent` and, when the word is used up, the
trailing `set_is_leaf(true)`. `k` is the number of characters the comparison of
lines 115-120 matches; it is determined by `Matched`. The branches under
`single_char`, which is the constant false, are not modelled, nor is `node1_t`, which
`node_type` does not select.

Three history variables are not in the code: `path` (the string a node was made
for), `lines` (the words read) and `strays` (the lines for which `AddDescend`
followed a child from the middle of a tail, line 131). `strays` is what
makes the dictionary properties precise: `LinesStored` and `NoPhantoms` hold
exactly as long as that never happened, and `WordDictionary` says when it can.

### WordDictionary

The abstract specification: `dict` grows by the pending word, or, only if the
word is *ambiguous* with a stored one, by another string made of a prefix of a stored
word and an ending of the new one. `Ambiguous(w)` is the condition on the
two words that lets line 131 go wrong: they part after k characters and the
character of `w` there comes again later in the stored word. `TrieDictionary` maps the trie to it: `dict` is the
paths of the leaves, `pending` the word of the call. `AddRefinesDictionary` shows
that `add` does nothing else, however the trie looks. So a dictionary without
ambiguous words is stored exactly.

### NodeLayout

The same `add`, over what a node is in memory: a buffer of bytes, of which `metadata` is the
set of bits of the first, `size` what was allocated and `tail` the string in it, and an array of
`neighbors`, the parent's slot first and NULL where there is none. `set_tail`,
`set_flag` with its `&= 0` that takes every bit away, `get_child`, `set_child` that goes to a
free slot or makes a new one, and `kill_children` are operators over the heap of nodes.
The number of neighbors is a signed char: `set_child` to a full array asks
`realloc` for a negative size and the program ends (`Exit`). `Trie` is the refinement mapping
to `InfixTrie`: the parent is slot 1, the children are the other slots, the leaves the nodes with the
bit. What `InfixTrie` and its proofs say therefore holds of the bytes.

### InfixSearch

`IndexTrie` is one step (nothing else runs), and computes `tpm` as the sequence
of entries in the order `index_trie` pushes them; the vector of a pair is the
set of its positions in `tpm`, and `it` the last position dealt with. `FindBegin` resets what the code has as locals;
`FindEntry` is one iteration of `find_path`'s loop with the whole call of
`find_path_util`; `FindEnd` leaves the loop. `Walk` is the recursion of
`find_path_util` down the key, and `TraverseUp` and `TraverseDown` are the two walks
that rebuild the string around it. `Entries`, `Climb`, `Below` and `Walk` are recursive functions over
nodes or calls, so that theorems can be proved about them.

### RowStore

The file is a sequence of lines; `Contents` is what `fread` sees. `row_buffer`
starts with any mixture of zero and other bytes, because the constructor does
not initialise it, and ends with a zero byte, without which the string would
run on behind the buffer. `dirty` is the history of how far the buffer holds
bytes other than zero.

### SearchWorker

`read_input` is `AddLine`, `AddGoesOn`, `NoteLine` for each line, and `IndexLines`. A call is
`FindMatches`, the turns of `find_path` (`FindPath`), and one `ExtractEach` for each word found, which
replaces the word by what `extract_row` leaves in `row_buffer`. `returned` is the part of the
answer made so far. All the parts are those of `InfixSearch` and `RowStore`; nothing is restated here.

### MasterService

`pc` gives each handler thread the loop it is in. `Collect`, `Scan`,
`Deregister` are one iteration each of the loops over `host_list`; `Push` and
`Link` are the two halves of `push_back`, between which another thread may
change the back of the list; `Open`, `Send`, `Receive`, `Close` are the steps of
a delegator, and an exception takes it straight to `done`. A freed list node
under an iterator is undefined behaviour: the thread then crashes the process
or goes on anywhere in the list. Two delegators in one connection share its
buffers: a request may be lost in the other's, and an answer may be unreadable.
`Accept`, `Serve`, `WorkerCrash` and `WorkerRestart` are external: workers run
`TSimpleServer` (`start_server`), one connection at a time.

`raced` and `shared` are histories of the two kinds of collision, so that the
properties can say what holds without them; with one handler thread neither
ever happens and the properties hold without exception.

### RemoteInfixSearch and SearchService

What travels in a connection is a sequence of tokens: the beginning of a message with its name,
type and number, fields with their number and type, and the stop of a struct. `Read` takes
a field by number *and* type and skips every other; `Recv` is what a client makes of a
message, in the order of the tests in `recv_findMatches`; `Reply` and `Exception` are what a
processor writes. `ping_args` and the others are the structs.

`SearchService` starts processes from command lines. `Main` runs `Options`, `main`'s loop over
its arguments, and the start function: where it listens (`StartsAt`), whether it loads the data
(`Loads`), whether it ends at once (`Fails`). `build` says which of the two start functions the program
was built with, since `main` calls one and has the other beside it in a comment; both are in
the model. A connection belongs to a caller or to a container of a master's `host_list`, and has
the tokens on their way in both directions. `Accept` gives it a thread, `process_...` answers its next
message, `Refuse` is the end of one in the wrong protocol, `Open`, `send_findMatches`,
`recv_findMatches` and `Close` are a delegator's steps, `Merge` the master's answer. A worker's own
answer is one row here, which names it: what rows it has is `SearchWorker`'s subject, what two handler
threads do to each other `MasterService`'s. `made` is the history of what the server last answered.

### DawgBuilder

dawgdic's builder, which `gary/build.cpp` feeds with a sorted file. It stands alone:
the search core does not use it. `unit_pool` holds the units of the last key as
lists of siblings; `base_pool`, `label_pool` and `flag_pool` the finished transitions,
whose packed bases `Base`, `ChildOf`, `ValueOf` and `IsState` pack and take apart;
`hash_table` finds an equal state. `WalkOn`, `Refuse`, `Part` and `WalkEnd` are the ways a
turn of `InsertKey`'s first loop ends, `AddUnit` and `AddEnd` the second loop,
`FixState` and `FixEnd` the loop of `FixUnits`, with the doubling of the table, the
search, the merging or the new transitions, and the units freed for later use. The
search of the table is the slot where it stops; if there were none, `FixState`
would not be enabled and the call would not return. `Hash` is a constant: any
function of a state's transitions will do, and the run takes one that collides
often. `held` is the history of the accepted keys.

### Dictionary, DictionaryBuilder, Guides, Completers, Dawgdic

`Dictionary` is a double array: a unit has the label that leads to it and an offset relative to
its own index, and the child by a label is at `index ^ offset ^ label`. The 32 bits of a unit are a record;
`Stored` is what packing does to an offset that is too large for its field, and `CanStore` when it refuses.

`DictionaryBuilder` has the recursive `BuildDictionary` as a list of calls to come: `VisitLeaf`,
`UseExistingOffset` and `ArrangeChildNodes` are the ways a call goes, `PlaceChild` a turn of
the loop over the children with `ReserveUnit`, `FixOldUnit` and `ExpandDictionary` what that calls when
it needs another block, `ArrangeEnd` the end of the loop with the entry in the link table.
`FreeList` is the circular list of free units, walked through `extras` as the code walks it.
`Guides` has `GuideBuilder` and `RankedGuideBuilder` over one stack of calls, `Completers` one action
per turn of the loops of `Next`.

`Dawgdic` is the tools: `InsertLine` reads a line of the lexicon into the dawg builder, `LayOut`,
`MakeGuide` and `Load` take it through the others, and `Asked` with `FollowQuery` or `Complete` answers a
query. `tool` is one of dawgdic-build and -find without option, with `-g`, with `-r`, and gary's
pair. `Step` is everything that is not a new query.

### KeyLookup

The abstract specification of the tools: a map from keys to values, and an answer to a query that lists the keys
that match it, each once, in the order of their labels or, for `-r`, with the greatest values first, and
comes to an end. It has neither automaton nor guide nor completer.

## The runs

All runs check deadlock off, since every program of the system may stop: no more lines, calls
or queries, or an end by itself.

| run | bounds | states | shows |
|---|---|---|---|
| `trie` | letters a, b; words of 0-3 letters; 4 lines | 195 633 | `add` keeps the trie well formed, loses nothing, and implements `WordDictionary` |
| `node` | letters a, b, d; words of 0-3 letters; 4 lines; arrays of at most 4 pointers | 916 478 | over bytes and arrays `add` does what `InfixTrie` says, and exits only when a node is full |
| `search` | words of 1-3 letters; 3 lines; keys of 0-3 letters, some with `*` | 157 636 | the index is complete; results are stored and hold the key; misses and repeats are explained |
| `worker` | files of 1-3 out of 9 rows; 6 keys, any number of calls; buffer of 6 bytes | 1 219 639 | a worker's answers: rows of the right lines, and all of them |
| `service` | 1 thread, 2 workers, 2 keys, 5 calls, 1 crash | 64 073 | the master of `start_server` |
| `service_http` | 2 threads, 2 workers, 2 keys, 3 calls, 1 crash | 69 119 | the master of `start_http_server` |
| `processes` | 2 processes, 6 command lines, both start functions; 2 callers, 6 requests, 3 calls, 1 failure | 204 906 | from the command line to a client's answer |
| `dawg` | 14 inputs, keys of 0-3 labels; 5 calls; a table of 2 slots at first | 154 745 | the automaton holds the accepted keys and stays minimal |
| `dictionary` | 1 028 lexicons out of 10 keys; blocks of 4 units, 2 unfixed; offsets extended from 4 on | 97 278 | the double array is the lexicon; the list of free units is sound |
| `completion` | 125 lexicons with values; 2 queries to a process | 70 558 | guides, both completers and gary's search implement `KeyLookup` |
| `exact_key_lost`, `listens_where_told` | as `search`, as `processes` | | findings, below |

What the properties say, besides their comments:

- `TrieShape` is what all code after `add` relies on: links agree both ways, tails spell the
  string a node was made for, siblings begin differently, inner nodes branch, an empty tail is that
  of a childless leaf. `StoredAreLines` joins `LinesStored` and `NoPhantoms`.
- `ImplementsTrie`, `AddRefinesDictionary` and `ImplementsLookup` are refinements; the first two
  compose: the bytes implement the maps, and the maps the set of words.
- `RowsAreMatches` and `AnswerIsComplete` are the two halves of what a client is promised, over the
  whole path from the lines of a file to the bytes of an answer. They have the exceptions the
  code has: strays, part numbers that begin others, keys of one character, a key that is a line itself.
- `AnswerIsOwn` and `InStep` are about the wire: no answer goes to another call, even after exceptions,
  unknown methods and fields of the wrong type. `FanOut` says what a master answers.
- `HoldsTheKeys` compares the strings and values of the automaton with the accepted keys, in the builder
  between two calls and in the dawg that `Finish` hands out.

Why the bounds are enough to be interesting. Two letters and three characters
give every way a word can meet a tail: equal, ending inside it, ending with it,
going on after it, parting from it, and parting with a character that comes
again, which is what sends a walk astray; that needs two lines. Four lines allow
a fork of a node that a fork made, with children to move, and a misfiled word
under each of them. With three letters and the end of a word a node can have four
children, one more than an array of four pointers holds, which stands for the 127th of the
code. For the search, three lines already give every miss, and
keys as long as the words cover a key inside a tail, over one and two edges, and
at both ends. The rows of `worker` share beginnings and insides, are prefixes of each other, one with STAR inside, and
differ in length; six bytes of buffer hold the longest with room for leftovers, and since
calls are not bounded there any row may follow any other.
Five calls are register, find, deregister, register, find: the shortest way to
leave something in a connection and meet it again; three overlapping calls give each collision of
two threads on a list that is not empty. In `processes`, three calls are enough to register an address that
answers and one that does not and then to ask; the second process may be a worker with its data, one whose file cannot be
opened, another master, which registered with itself makes a circle, a worker on the first one's host, where
one of the two finds the port taken, or one whose command line is wrong. More than one worker with rows at a time is in `service`. Four keys and `Finish` are enough for a state
of two transitions to be merged, a unit to be used again and the table to be doubled twice; a key with a
NUL, the empty key, a negative value and keys out of order are among the calls. The lexicons of `dictionary` are
all the subsets of ten keys over three labels, some of which fill four blocks, so that blocks are fixed while
building goes on; with offsets extended from 4 on, merged states are reached with offsets that can be
kept and others that cannot, and a lexicon can fail to be laid out. The lexicons of `completion` are the subsets of six of these keys,
once with the values 0 and 1 in turn and once with rising ones, so that the ranked order is decided by ties and by values. Two queries are the fewest by which something left from one can
disturb the next.

Fairness. `AddIteration` is weakly fair, since `add` runs in its caller's
thread and waits for nothing; `AddReturns` needs it. So are `Turn` of `DawgBuilder` and `Step` of
`Dawgdic`, for the same reason: no query must be asked, but an asked one is worked at. In `MasterService`
handlers, delegators and
workers are threads or processes the scheduler does not starve, so each is
weakly fair on its own; no caller must call and no worker must crash or return.
`FindMatchesReturns` holds without timeouts because a crash ends a worker's connections and
a running worker answers; a worker that hangs without crashing is not in the
model, and would hang the call. In `SearchService` one of the servers' threads and connected callers goes on
whenever any can, which the bound on calls makes as good as fairness to each; a caller that has connected calls and hangs up in the
end, since one that keeps its connection keeps a server's thread from others. `EveryCallAnswered` has two exceptions, circles
and kept connections, because there the code really waits for ever.

### Findings

- `listens_where_told`: a process started with `--port 9090` listens on 8080. The usage text
  promises "port to listen on" (`RemoteInfixSearch_server.cpp:224`); `main` calls
  `start_http_server`, which has the port in its code (line 110), and `start_server`, which uses the option, is commented out.
- `exact_key_lost`: with "aba", "ab", "aa" the key "aa" recovers nothing, since `add` has followed
  a child from the middle of a tail (`search.cpp:131`). Line 10 of the repository's README
  says "Exact key matches will recover unique IDs."

The same line of that README differs from the code in four more ways. `InfixSearch` states each as
an invariant, which can be seen to fail by putting it in the place of `ExactKeyRecovered` in
`MCInfixSearch_ExactKeyRecovered.cfg`:

- `OneCharKeyRecovered`: a one-character line is not found by itself
  (line 366 takes the terminator for the second character).
- `ExactKeyUnique`: an exact match does not exclude what was found before it.
- `InfixRecoversAll`: with "abb", "abba" the key "bb" recovers only "abb"; the search
  does not look below a leaf at whose end the key ends (lines 332-340).
- `SuffixRecoversNothing`: a key past the last branch point does recover its
  entry (the document says it does not); `index_trie` enters those pairs too.

`MissedBehindShorter`, `FoundAreMatches` and `RepeatsExplained` say what does hold
instead, and `RowsAreMatches` and `AnswerIsComplete` what of it reaches a client.

## The proofs

About the trie, for every `Char`, `Words` and `MaxLines` that satisfy
`CharAssumption`, `WordsAssumption`, `LinesAssumption` and, for the refinement, `NoneAssumption`:

| theorem | invariant or action property | module |
|---|---|---|
| `TypeCorrect` | `TypeOK` | `InfixTrie_proofs` |
| `EdgesCorrect` | `EdgesAgree` | `InfixTrie_proofs` |
| `NullNeverFollowed` | `NoNullChild` | `InfixTrie_proofs` |
| `WordsAreKept` | `TurnKeepsWords` | `InfixTrie_proofs` |
| `PathsCorrect` | `PathsAreTails` | `InfixTrie_proofs` |
| `SiblingsToldApart` | `SiblingsDistinct` | `InfixTrie_proofs` |
| `InnerNodesBranch` | `Compressed` | `InfixTrie_proofs` |
| `WellFormed` | `TrieShape`: `EdgesAgree`, `PathsAreTails`, `SiblingsDistinct`, `Compressed` and `NoNullChild` together | `InfixTrie_proofs` |
| `WalkCorrect` | `WalkInWord` | `InfixTrie_proofs` |
| `LinesAreStored` | `LinesStored` | `InfixTrie_proofs` |
| `NothingInvented` | `NoPhantoms` | `InfixTrie_proofs` |
| `StoredWords` | `StoredAreLines`: `LinesStored` and `NoPhantoms` together | `InfixTrie_proofs` |
| `AddImplementsDictionary` | `AddRefinesDictionary`: the trie implements `WordDictionary` | `InfixTrie_proofs` |

About the search, for every set of keys (`KeysAssumption`); about the worker, for every set of lines and part numbers and every
buffer size that satisfy `RowsAssumption`, `BufferAssumption` and `MpnsAssumption`, which says that the words of the trie
include the part numbers of the lines; about the master, for every finite set of threads, every
set of workers and keys and every bound on calls and crashes (`ServiceAssumption`); and about the service, for every set of processes,
of command lines and of callers, every size of the pool and every set of requests that satisfy `CallerAssumption`, that a caller is not itself a
container, and `RequestAssumption`, that a caller sends a sequence of fields, whatever their numbers and types:

| theorem | invariant | module |
|---|---|---|
| `FindsMatches` | `FoundAreMatches` | `InfixSearch_proofs` |
| `PairsIndexedOnce` | `EveryPairIndexed` | `InfixSearch_proofs` |
| `MissesBehindShorter` | `MissedBehindShorter` | `InfixSearch_proofs` |
| `RepeatsAreExplained` | `RepeatsExplained` | `InfixSearch_proofs` |
| `RowsAreInPlace` | `RowsInPlace` | `SearchWorker_proofs` |
| `RowsMatch` | `RowsAreMatches` | `SearchWorker_proofs` |
| `AnswersAreComplete` | `AnswerIsComplete` | `SearchWorker_proofs` |
| `ListIsTheRegistry` | `ListIsRegistry` | `MasterService_proofs` |
| `NobodyIsMissing` | `NobodyMissing` | `MasterService_proofs` |
| `NothingIsLeftOver` | `NothingLeftOver` | `MasterService_proofs` |
| `RowsAnswer` | `RowsAnswerTheKey` | `MasterService_proofs` |
| `ServiceIsSound` | `ServiceInv`, the inductive invariant of the other three | `SearchService_proofs` |
| `CallersGetTheirOwn` | `AnswerIsOwn` | `SearchService_proofs` |
| `StaysInStep` | `InStep` | `SearchService_proofs` |
| `MastersAnswerRows` | `FanOut` | `SearchService_proofs` |

About the dawg builder, for every set of keys and values, every initial size of the hash table and every function `Hash`
that satisfy `InputsAssumption`, `SizeAssumption` and `CallsAssumption`; all but `OrderEnforced` and `StackSpellsLastKey` suppose also that the values of `Hash` are
numbers (`HashesAreNumbers`), as they are in the code, where they are of type `BaseType`. This speaks of all finite sets, which TLC
cannot enumerate, so it is a hypothesis of the theorems and not an assumption of the module:

| theorem | invariant | module |
|---|---|---|
| `OrderEnforced` | `RefusedOutOfOrder` | `DawgBuilder_proofs` |
| `StackSpellsLastKey` | `StackIsLastKey` | `DawgBuilder_proofs` |
| `TableNeverFull` | `TableHasRoom` | `DawgBuilder_proofs` |
| `SharedStatesAreFlagged` | `SharedStatesFlagged` | `DawgBuilder_proofs` |
| `AutomatonIsMinimal` | `Minimal` | `DawgBuilder_proofs` |
| `KeysAreKept` | `HoldsTheKeys` | `DawgKeys_proofs` |

**The trie.** The argument goes in rounds, each an inductive invariant that rests on the one
before. The lemmas that the modules above the trie need are about `TrieSafety`, which is `TrieSpec` without fairness: nothing obliges
a worker to go on reading.

1. `TypeOK /\ EdgesAgree` is inductive by itself. `ForkTwoNodes`, `ForkTwoPathMap`
   and `ForkOneNodes` say once, node by node, what a fork leaves behind; all
   later proofs cite them instead of the actions.
2. `Round1` adds `WalkInv`, where the walk stands in the word, and
   `EmptyTails`. They need each other: a turn matches at least one character
   because the tail begins with the word's next one (`TurnMatches`), so a fork
   never cuts a tail to nothing, so the only empty tails are those of leaves,
   where the walk has ended.
3. `PathsAreTails` on top of `Round1`. A fork in two changes the paths of three
   nodes and the parents of a whole set; that the forked node is not among its own
   children follows from the paths (`NoSelfLoop`). `SiblingsDistinct` and `Compressed`
   need only `Round1`: the two halves of a fork begin differently, because there
   the comparison stopped (`ForkTwoVals`).
4. `WalkSpells`: until add follows a wrong child, the string above the walk is the
   part of the word matched so far. Then the leaf where add ends has the word as
   its path (`IterationStores`), which gives `LinesStored` and `NoPhantoms`.

TLC checks these formulas in `trie` on the small instance, except `WalkInWord`,
which says where a call in progress stands and is only proved. Since `NodeLayout` implements
`InfixTrie`, which TLC checks, they say the same of the bytes on that instance.

**The refinement.** The abstract step happens when the call ends; all other turns are stutters, for
which `TurnKeepsWords` is half of the reason. A call that never went astray stores its word, by round 4. For
one that did, `StrayAmbiguous` carries from the wrong turn to the end that there was then a stored
word with which the pending one is ambiguous, and that the string above the walk is a prefix of it
followed by the part of the word matched since. `NewStray` establishes it: line 131 follows a
wrong child only when the character at which word and tail part comes again in a word below
this node. That there is a word below *every* node (`HoldsWord`) is where `Compressed` and `EmptyBeside` are
needed: an inner node has children, paths grow downwards, and their lengths are bounded.

**The search.** Every walk of the code goes up or down the trie, and so is finite: the path of a child is longer than its
node's, or as long and then the child is empty (`DepthGrows`), and paths are bounded (`HeightExists`). Along such a rank a recursive function
has the value its definition says (`RankedRecursion`, `SolutionsAgree`) and can be reasoned about by induction (`RankInduction`).
That gives what each walk computes: `traverse_up` the path to a node without the head's STAR (`ClimbIs`), `traverse_down_util` from a node
only strings that lead on to the end of a leaf (`BelowIs`), `index_trie` only places inside a tail (`IndexIs`), and `find_path_util` a place
up to which the path is what lay above the entry followed by the key (`WalkReaches`). Put together (`AnswerJoined`), prefix, key and
suffix are one path. `SearchInv` carries through the calls that `tpm` holds such places and `found_keys` such answers.

**The index.** Siblings are told apart, so a string leads to one place of the trie only (`OnePlace`). What `index_trie` lists for a node and
all nodes below it is therefore a list of different texts, a text being what leads to an entry with its second character (`Listed`, `AllDifferent`,
by induction along the rank in `EntriesListed`), and it holds an entry for each character of each path below but the first (`EntriesHold`).
`IndexInv` keeps both through the queries, which change neither the trie nor `tpm`; counting gives `EveryPairIndexed`.

**The search misses nothing.** If the key occurs in the path of a leaf, the pair that begins the occurrence is indexed. From there
`find_path_util` can only go down towards that leaf (`WalkFinds`): its tail goes on with the key as long as the leaf's path does (`AgreeStops`), and the child with the key's next
character is the one towards the leaf, as siblings differ (`NextChild`). So it ends at the leaf or a node above it, and `traverse_down_util` comes to
every leaf below (`BelowComplete`), unless line 336 answers with a leaf at whose tail the key ends: that one's word is then the
shorter one of `MissedBehindShorter`. `CoverInv` says of the turns of `find_path`'s loop done so far that they have served every occurrence their entry begins (`TurnsServe`).

**Nothing twice without a reason.** Each answer comes from one entry, which is a place of the path, and one leaf (`Gives`). No leaf is reached twice from one node (`LeadsExists`,
because the texts below different children part at their first character), and different entries are different places (`AllDifferent`). `OriginInv` keeps for
the answers so far an injection into the pairs of entry and leaf (`Explains`), and `FS_Injection` turns it into the product of `RepeatsExplained`.

**The answers.** A worker's steps are steps of the search or leave it alone (`WorkerIsSearch`), so all of the above holds
of it. `LinesRead` says that the lines in the trie are those of the file, and all of them once it is indexed; so a word found that no line has is
one that a wrong child put there (`PhantomsInvariant`) or begins with STAR (`WordOfNoLine`). `ReturnInv` is `RowsAreMatches` for an answer that is not complete yet. For a file without strays the words of the trie are the part numbers of the file (`LinesAreFile`); so
what `MissedBehindShorter` leaves out, an exact match or a stored word that another extends, is what `AnswerIsComplete` excludes. An exact match
may also be the path of a line, with the head's STAR before it: for a part number that has STAR inside, the key `*a` ends the search at the line `a`, before
`b*a` is found. The proof needed that case, and the property and the rows of `worker` have it since.

**The rows.** `RowInv` says what a worker's four pieces of state have to do with each other:
`FileSound`, the position in the file is the end of the lines read; `MapSound`, an entry of
`row_lookup_map` is the place of a line with that part number, and every part number read has one, of the last such line;
`BufferSound`, the bytes behind `dirty` are zero or still those of the constructor, the last is zero; `RowSound`, while a row
is taken out the part of the buffer written is the text of its line. The text of a file is the
concatenation of its lines, so the lemmas about it are about prefixes of a fold: reading one more line leaves what lay before
(`ReadStays`), and each line lies in the contents where the fold put it (`LineInContents`).

**The master.** `ServiceInv` is `Sound /\ RepliesSound`, and `Sound` has the parts `Types`, `NumbersGiven`
(a list node has one number, once), `WorkersSound`, `SharingSeen` (two delegators in one connection are
recorded in `shared`), `Unoccupied` and `Exchange`: as long as nothing is shared, a connection holds
nothing, or exactly one request, or exactly one answer, and the delegator that has it knows which. From there
`NothingLeftOver` is what remains when no delegator has it, and `RowsAnswerTheKey` follows the rows from the worker through the
connection and the delegator's container to the concatenation in `findMatches` (`FlattenOrigin`). A crash empties
connections and an exception makes a delegator leave, so these steps keep it too. `NobodyMissing` counts: the containers a call has
started delegators for are those of `host_list` in order, one each.
`ListInv` is about the registry: `RaceSeen`, two threads that change the list at once are recorded in `raced`, and until
then the list is in the order of registration, without repeats, and holds exactly what is registered (`ListSound`).
With one thread nothing is ever raced or shared, and the statements hold without exception.

**The service.** Neither client nor server looks at the sequence numbers of messages or empties a connection before it uses it, so that an answer
belongs to its call is a matter of who may write when. `ServiceInv` says so for each sort of client. `CallerSound`: a caller that waits has its call on the way, or being worked on, or
answered in its connection, and only then (`CallerWaits`); `made` is then the answer to that call. `DelegatorsSound` says the same of a delegator and its container, with
`FreeOK`, that a container no delegator waits in is idle; it needs that the container has one delegator (`OneDelegator`), although any number of
threads may serve calls to one master. They cannot overlap: with `start_server`, the only one whose clients its peers understand, a process serves one connection at a time (`OneServed`),
an address is in `host_list` once (`HostsSound`: `registerService` looks for it first), and one process listens there (`AddressesDistinct`). With `start_http_server` they do overlap, and all that is
left is `HttpSound`: calls pile up in a container, which nobody reads, and nothing comes back.
`TaskSound` says what a call under way works on, `MatchesSound` what each delegator that is through has brought (`Brought`), and `MadeSound` (`Answered`) what that comes to in `Merge`.
`Settled` is what no step takes back, so that what was true of a worker when it was asked is so when the answer is merged: who listens, what it has loaded, and what was made of a failure.
What goes over the wire is read as it was written: a call of `findMatches` gives the worker the key it was sent with, of a reply or an exception `recv_` makes what was put into it
(`ReplyRead`, `ExceptionRead`, `KeyCallRead`), and of whatever else a caller sends `process_` takes the whole message and no more (`CallRead`, `OneMessage`).

**The builder.** `Insert` never compares a key with the last one. It walks down `unfixed_units` and compares labels, so that
it refuses what comes out of order is a consequence of what the stack spells, and the two theorems have one invariant, `BuilderInv`.
Its part about the data is `Arrangement`: there is a depth for every unit of the pool in use such that `child` leads to the newest
unit one deeper, `sibling` to the next older one of the same depth, and labels fall strictly along siblings. From it follow what
the recursion in `Siblings` needs, that the chain of siblings ends (`LinksEnd`, counting the units) and passes every unit of its
depth once (`SiblingsPassed`), and what `FixUnits` needs, that giving those units back to `unused_units` leaves the rest arranged
(`ArrangedStill`, `FreedTop`). `StackSound` says that `unfixed_units` is the newest unit of each depth. The other parts say how far
the call has come: `LastKeyHeld`, the stack spells the greatest key held (`UpTo`); `WalkSound`, in the walk
the labels passed are those of the key; `FixSound` and `AddSound`, what is left of the stack spells the common
prefix, and the key is above everything held. That the key is above the last key because its label is larger
where they part, and so above all others, is `LessTransitive`.

**The table.** `TableInv` is kept on top of `BuilderInv`. Its part `StatesHeld` says that the last transition ends its state,
that the table holds exactly the states, each once (`Filled`), and that it has at least `num_of_states` slots, one more than there are
states. What makes it inductive is what `FixState` packs: of the units it takes, the last one added has no flag for a sibling
(`FlagsSound`: only the unit from which the call parts has one on the stack) and so ends the state; the first one is a state and the
others are neither states nor terminators (`GroupIs`, by `UnitsTyped` and the falling labels) and so
exactly one new state begins (`BaseIs`, `GrownIs`). That every probe ends is `ProbeReaches`: the slots from any hash value on are
all slots. So putting the states into the doubled table one by one, of which `ExpandedTable` is the recursion, loses
none (`PutIntoFills`, `ExpandedFills`), and afterwards there is room for one more (`TableFills`).

**What is shared.** While a dawg is built, two sorts of things lead to a state: the transitions of other states, and units, which will become
transitions. `SharedInv` says of both together that one at most leads to a state that is not flagged (`SingleUnlessFlagged`). A unit counts if it
is in use and on the stack no longer, or is its top while `FixUnits` is at work (`Hangs`); the child of any other unit on the stack is no state but the next unit. `FixState` packs units that hang (`ChainHangs`), replaces their references by those of the transitions it writes, one for one
(`NewTransition`), and frees the units (`FixStateFrees`); or it finds the state there, writes nothing and flags it (`Merges`). Everything else only adds units
that lead nowhere (`AddUnitAdds`), so the new reference, from the unit below, is the only one to a state that is new. At the end the root leads to what the bottom unit led to (`HandedOutFlagged`).

**Why no state is made twice.** `DistinctInv` says four things. A unit off the stack has the flag for a sibling exactly if it has one (`SiblingsTold`):
`FixUnits` gives it to the new top of the stack before that unit can be packed, so what is packed is a state as it will be read.
Every state lies where the probe from its own hash comes to before an empty slot (`Probed`): `FixState` puts a new one into the slot where its search has just ended,
and doubling the table puts each one in again by a probe of its own (`PutIntoFills`). So the search compares a state with every one that could equal it, whatever
`Hash` is, and what it writes equals none (`NoneEqual`). Transitions go to states only (`GroupsSound`), which lie before the state they leave,
and two states whose transitions are equal are one (`Canonical`). Hence `DistinctIsMinimal`: if the right languages of two states are equal, so are their labels,
their values and the right languages of their children; the children are earlier, so by induction they are the same, and then the transitions are.
`RightLanguages` is recursive along that order (`RankedRecursion`).

**Why no key is lost.** `HoldsTheKeys` speaks of the times between two calls, and while a call is at work the units of the
last key are taken apart, so `KeptInv` says where every word is read at each turn of a loop. A unit reads the words that begin with
the labels of the stack below it and its own and go on as the state it leads to (`Reads`). It counts if it is off the stack, or is the
terminator of the last key, or is the top of the stack in `FixUnits` (`Counts`); a unit inside the stack leads to no state yet. The words that
units that count read are the accepted keys with their values (`Keeps`), without the key of the call from the time when its terminator is about to get
another value. A turn of `FixState` moves the words of the top and of its siblings to the unit below (`BelowReads`): what `FindUnit` has found equal, or what has been written, leads on as
they did (`FixedWords`), and no state that was there leads on otherwise than before (`RightExtended`). `AddUnit` counts no unit (`KeptByAddUnit`), `AddEnd` counts the terminator, which
reads the new key and nothing else, and no other unit reads it, because no two units of a depth have the same label (`LabelsDiffer`,
`OnlyReader`). That a unit stays at its depth although `Arrangement` only says that there are depths is `DepthsKept`. At the end the root reads every word, through
the state that transition 0 of the dawg leads to (`HandedOutKeys`). This rests on `BuilderInv`, `TableInv`, `SharedInv` and `DistinctInv`, before and after the step.

**Only model-checked.** Liveness (`AddReturns`, `FindMatchesReturns`, `EveryCallAnswered`, `CallsReturn`, `ToolSettles`),
which is out of the prover's reach. `NodeLayout` and its refinement `ImplementsTrie`: its
`get_children` is a `SelectSeq`, which the prover knows only by name. The modules about dawgdic's dictionary; `Guides` declares a RECURSIVE operator, so nothing can be proved
about it or the modules above it, nor that they implement `KeyLookup`.

## Not modelled

- The fixed buffers `path[100]`, `buf[100]` and `row_buffer[1000]` of the query code and the signed
  positions of `tpm` (`search.hpp:7`): the models have strings without a limit but for `row_buffer`. An
  empty dictionary file, for which `index_trie` dereferences NULL. Allocation failure.
- `node1_t`, which `node_type` does not select, `get_token`, which nobody calls, and the branches of
  `add` under `single_char`, which is the constant false.
- Options of the command line driver and of the dawgdic tools, files that cannot be opened, timing and
  printing. `find_in_file`, the driver's linear search, is the definition the search is compared with.
- `registerService` and `deregisterService` return no value, which is undefined;
  the model lets them return some value. How thrift's protocols lay tokens out in bytes, its
  transports and its servers are external. Of the generated code the Null, Multiface and factory classes, which
  nothing uses.
- `client.cpp` has an older copy of the handler, which its `main` does not use; its
  one call is a caller of `SearchService`, and the file it writes is not modelled. The Java client is a caller like it.
- Of the dawg builder the width of a base (indices are unbounded), the blocks of `ObjectPool`, the
  function `Hash`, which may be any, and tracing; of the dictionary `Map` and `Shrink`,
  which no tool calls, and the file's format. What `gary/build` does when its dictionary could not be built is
  undefined in the code, and the end of the run in the model (status "undefined").
- The Java port of dawgdic: `CompactNode` and `Node` are bit fields of a unit, the `main` of the builder is empty,
  and nothing calls them: there is no behaviour yet. The Hadoop job: two functions of one line, and the rest is
  Hadoop's.
- The tutorial, build products and data: not this program's logic.

## Plan

*Done:* all the modules above; every safety property of `InfixTrie`, its refinement of
`WordDictionary`, every safety invariant of `InfixSearch` and `SearchWorker`, every one of `MasterService` but the type invariant, every one of `SearchService`, and the order, the stack, the hash table, the flags, the minimality and the keys of `DawgBuilder`, which are all its safety invariants, proved.

*Left, proofs:*

- `NodeLayout` implements `InfixTrie`: `set_child` and `kill_children` as lemmas over heaps, the steps
  by the actions they map to. Then the theorems about the trie hold of its bytes.

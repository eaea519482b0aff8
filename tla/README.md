# A verification project for aports

aports is the package tree of Alpine Linux.  Most of it is data: recipes,
patches and configuration for programs of other projects.  What this project
models are the programs that live here and nowhere else, and have behaviour
of their own: the configuration auditor *aaudit*, the DNS library *lua-dns*
with its queue, the BSD headers for trees and lists, and a few C files that
are not taken from elsewhere as they are: `argz.c`, `base64.c`,
`ssl_client.c`.

Each program is a component with a module of its own, abstract specifications
state what a component promises, TLC checks small instances, and TLAPS proves
the most important results for all values of the constants.

## 1. Inventory

| part | state | operations | what is hard |
|---|---|---|---|
| `main/aaudit` server (`aaudit-server.lua`, `aaudit-shell`) | one bare git repository per host: branches `master` and `import`, `aaudit-repo.json`, stamp `lastcheck`; `known_hosts` | `create`, `commit`, by `handle()` | no lock: processes overlap; crashes leave half an import; mail fails |
| `aaudit-repo` (cron) | the stamps of all repositories | pulls the hosts whose stamp is old; reports unreachable ones | runs beside requests; a failing repository stops the loop |
| `aaudit` client | `/etc/aaudit/aaudit.json` | sends a request and an archive, reads the reply | the archive may end early |
| `main/lua-dns/ztact.lua` queue | a table with runs `p[1..6]` | `enqueue`, `dequeue` | three runs that reuse slots |
| `ztact.lua` nested tables | tables of tables | `set`, `get` | pruning of empty tables |
| `main/lua-dns/dns.lua` resolver | `active`, `cache`, `wanted`, `yielded`, `socket`, `server` | `query`, `receive`, `pulse`, `lookup`, `peek`, `purge`, name servers | replies late, lost, repeated; ids repeat; retries; clock |
| `dns.lua` packets | the packet and an offset | encode, decode | lengths, compressed names |
| `main/bsd-compat-headers/tree.h` red-black tree | root, child, parent, color | insert, remove, find, nfind, next, prev, min, max, loops | rotations; loops whose body changes the tree |
| `tree.h` splay tree | root, children | insert, remove, find, next, min, max; splay | every lookup rebuilds the tree; elements hang from a local node meanwhile |
| `main/bsd-compat-headers/queue.h` | list heads and links, for six kinds of list | insert, remove, replace, move, concatenate, loops, the checks of QUEUEDEBUG | pointers to pointers; entries taken for heads; loops whose body changes the list |
| `main/s390-tools/argz.c` | a block of strings and its length | add, create, delete, insert, replace, count, extract, stringify | pointers into a block that moves; allocations that fail half way |
| `main/busybox/ssl_client.c` | two streams, a TLS session, a buffer | copy loop over poll | short writes; records without data; an end that leaves first |
| `main/netcat-openbsd/base64.c` | source, target, a decoder of four states | encode, decode | the end of the target; the end of the text within a quantum |
| `main/busybox/default.script` | routes, `resolv.conf` | lease events | order of events |
| `main/musl/*.c`, `timepps.h`, `bbsuid.c` | none that lasts | wrappers | little |
| `scripts/`, init scripts, hooks | files of an image or a system | sequences of commands | failing commands |

How they interact: the aaudit client talks to the server over ssh, cron and
the server share the repositories, and the server depends on git and a mail
server.  dns.lua uses the nested tables of ztact.lua and a UDP socket; the
queue of ztact.lua is used by its callers alone.  The headers are included by
other packages, each of which is the "body" of their loops.  `ssl_client` runs
between the wget of busybox, on its standard streams, and a server; argz and
base64 are called by the program they are linked into.

What makes each correct:

* aaudit: master of a host only grows; a change somebody is to be told about
  is mailed before it is recorded; answers are true; the record comes to hold
  what the host has.
* queue: first in, first out; no element of a queue overwritten.
* resolver: a lookup returns; no reply counts twice; a retry to the first
  server finds its socket.
* red-black tree: an ordered set; the balance its comment describes; loops
  that come to every element once.
* splay tree: an ordered set that loses nothing while it is taken apart, with
  what was looked for at its root or next to it; splaying ends.
* lists: the links represent the sequence the program made; QUEUEDEBUG stops
  a program exactly where a link is wrong; loops that come to all that stays.
* argz: a call does to the strings what it is for, or fails and says so.
* base64: what was encoded is decoded; no byte beyond the target; one text for
  each string of bytes, but for spaces.
* ssl_client: both streams arrive in order, and the program ends.

## 2. Modules

| module | models |
|---|---|
| `AuditLog` | abstract: the log of one host and who must be told |
| `Aaudit` | `handle()` on one repository, several processes, crashes, cron |
| `AauditProps` | what is claimed of it |
| `MCAaudit` | symmetry, and which contents are similar, for TLC |
| `Aaudit_proofs` | theorems |
| `Fifo` | abstract: first in, first out, once the first call is made |
| `SegQueue` | `enqueue`, `dequeue`; its properties |
| `Resolver`, `MCResolver` | the resolver; schedules of retries for TLC |
| `Resolver_proofs` | theorems |
| `OrderedSet` | abstract: a set with order |
| `RBTree` | the red-black tree; its properties |
| `RBTree_proofs` | theorems |
| `RBForeach` | the safe loops over it; composes `RBTree` with a loop |
| `RBForeach_proofs` | theorems |
| `MCRBForeach` | a bound for TLC: loops over trees of `LoopKeys` |
| `SplayTree` | the splay tree; its properties |
| `QueueMacros` | the macros of `queue.h` as functions of a memory |
| `Queues` | a program that uses them, with a loop; its properties |
| `Queues_proofs` | theorems |
| `Argz` | `argz.c`; its properties, against sequences of strings |
| `Argz_proofs` | theorems |
| `Base64` | `b64_ntop`, `b64_pton`; its properties |
| `SslClient` | the copy loop with its user and its server; its properties |
| `Utilities_proofs` | theorems about `Base64` and `SslClient` |
| `Containers` | for TLC: `SegQueue` or `SplayTree`, both extended |
| `Containers_proofs` | theorems about `SegQueue` and `SplayTree` |
| `Utilities` | for TLC: `Argz`, `Base64` or `SslClient`, all extended |

`Containers` and `Utilities` are sums, not compositions: their initial states
choose one of the programs, and only that one takes steps, because the
programs share nothing.  A run of the sum is a run of each part.

Definitions under a comment `Error: ...` are not part of a model.  Each is a
mistake that could be made in the code, to be put in the place of the
definition after it: every property is broken by one of them.

A module has at most one invariant about types.  Where the interesting
invariant of a module is about the same variables the types are a conjunct of
it: `SearchTree`, `StaysSorted`, `SocketWhileWaiting`, `StreamsInOrder`,
`WithinTarget`.

### Aaudit

A commit is the sequence of trees from its root; a tree gives each tracked
file its contents or says that it is absent.  Branches are commits, and that
git moves a branch only to a descendant (fast-import) or wherever it is told
(`branch --force`) are statements about prefixes.  The behaviour of git is
external: it was taken from how git 2.39 behaves on the commands that
aaudit-server.lua runs, in particular that fast-import takes the end of its
input for the end of a commit, that it refuses a `from` that does not exist,
and that `git branch --force master import` does nothing without an import.

A process is at one of the steps of `Steps`; a step of the model ends where
another process or a kill can come between: at a command, a written file, a
mail.  `repo_create` is four steps (init, truncate, fill, known_hosts),
`repo_update` the rest: load, stream, close (fast-import ends), stamp, diff,
mail, then publish and unlink, or refuse, or drop.  Which group's patterns a
file matches is the constant `NoNotify`; whether there is a recipient is the
constant `AlwaysNotified` (group "all" names one) or that `aaudit-repo.json`
could be read.  `generate_diff` sees one header for a file that git takes for
renamed, and reads only the old path from it (`aaudit-server.lua:275`).  Which
of the added files git pairs with which removed ones depends on their contents,
its limits and its configuration, so that `Renames` is any pairing of files
whose contents are `Similar`, and a process looks at the headers that one of
them leaves.  The log's promise is the weaker for it: a mail is due for a
change that shows a watched path under every pairing.

Where the archive ends matters to the answer.  Before its trailer, but between
two entries, or without an archive, the process answers an error; within an
entry, or when fast-import has gone, it dies without an answer
(`StreamBroken`).  A request without the host's key leaves known_hosts as it
is (`AddKnownHost`).  Author, date, message, modes and the wording of mails are
left out; so is the object store, hence `git gc`.

### SegQueue

The table is a function on the slots in use, a run a pair of bounds.  Each
branch of `enqueue` is an action; `dequeue` first adopts a list without `p`.
`enqueue` does not: it takes every table without `p` for an empty queue, puts
its element into slot 1 and knows nothing of the others (`ztact.lua:176`,
`:203`).  The model's queue may start as such a list.  What lies in slots that no
run has is then in `left`; `Fifo` has the step `Forget` for it, and
`NothingOverwritten` makes this one exception.

### Resolver

The clock is what is left of each deadline, so that a second is one action
(`Tick`) that may come at any time.  `active` maps an id and a question to
the server, the delay and the wait of its query, `requests` and `replies` are
the packets on the way, which get lost, duplicated and overtaken.  pulse is
two steps: it receives packets one at a time, then it retries.  A table
lookup with a nil key, as in `receive`, finds nothing.  A reply carries records
of its own question only, and the cache of a question is how long its
longest-lived record has, and whether one has TTL 0, which has no time of
death.

Only server 1 ever gets a socket.  A query that comes to another server raises
in pulse at `dns.lua:687`, when its server is already the next one and its time
to retry is still past (`RetryRaises`); what pulse met before it in the table has
been resent or given up.  The error leaves pulse, and lookup, and the program
goes on as it pleases: the next pulse moves the query on from there, to a third
server or around to the first with the next delay.  `SetNameServer` may leave a
query at a server that is no longer there, which wraps around too.

A soft purge is left out: what it drops peek would drop, and at a record with
TTL 0 it raises, because `assert` is nil in a module made by `module()`.

### RBTree and RBForeach

A node is its key.  Insert and remove change the tree in one step, and then
take one step per iteration of a color loop.  Mirrored branches are one
definition over a side.  RB_AUGMENT is empty by default and left out.  The
loop's body may insert anything and remove anything but the element that the
macro has saved.

### SplayTree

`SPLAY(head, elm)` and `SPLAY_MINMAX` are the same loop with another
comparison; an iteration is a step, as is what follows the loop: SPLAY_ASSEMBLE
and the rest of the calling operation.  `Node` is the local `__node`, from
which what is smaller and what is larger hangs while the loop runs, so that
`StaysSorted` speaks of three trees at once, and of the fourth that
SPLAY_REMOVE holds in `__tmp` while it splays again.

### QueueMacros and Queues

A memory maps cells (the fields of heads and elements) to what they hold: an
element, a head, the address of a cell, NULL or `Poison`, which stands for what
QUEUEDEBUG_*_POSTREMOVE or a free leaves behind.  Each macro is one function
of a memory, its assignments in the order of the header, and STAILQ is SIMPLEQ
under other names.  `AsHead` is the cast by which TAILQ_LAST and TAILQ_PREV
take an entry for a head.  The search loops of the REMOVEs are a recursive
function (`Walk`).

`Queues` is the program: `lists` is what it means to have, `mem` what it has.
Its guards are the rules of use of the header: insert what is in no list,
remove what is in this list, not the element that the loop has saved, and
CONCAT and MOVE outside of a loop.  One rule is not written anywhere:
LIST_MOVE (`queue.h:214`) leaves the back link of the first element at the old
head, so that this element must not be removed, replaced or inserted before
until an insertion at the head mends it.  `origin` remembers where that link
points, and `Usable` is the rule.  A program that breaks it with QUEUEDEBUG is
stopped, and so is one that keeps it, at the next LIST_INSERT_HEAD into the
moved list or LIST_INSERT_AFTER its first element.  `DebugChecksAreExact` says
that the checks fail there and nowhere else; `AnyElementMayBeUsed` is what the
header says of lists, and fails (finding 4).

### Argz

A vector is a block of bytes and its length, a pointer the place of a byte.
Every function of `argz.c` is an action or, when it only reads, an operator;
an allocation may fail, and argz_replace, which makes several, takes a number
of them that succeed (`Rooms`).  `DoesAsMeant` compares each call with
operations on the sequence of strings.  A pointer given to argz_insert may point
anywhere.  The loop that looks for the beginning of its entry stops behind a
NUL and nowhere else (`argz.c:206`), so that from inside the first entry it reads
the byte in front of the block: if that is 0 it stops at the entry, and
otherwise it goes on and the new entry is written in front of the block, after
which nothing is known of it (`Wild`).  Three more things that the code does are
part of the model: some functions that fail leave NULL with the old length
(`Lost`), and the program must then drop the vector; words that are empty
survive only at the end of a text with delimiters; and a vector is left alone
where nothing matches.  The counter that argz_replace returns is left out: the
comment (`argz.c:302`) calls it the number of replacements, the code adds one
for each string in which there is any.

### Base64

A character is a number, its place in the table or one of `Pad`, `Space` and
`Other`.  A quantum is a step of b64_ntop and a character a step of b64_pton,
whose four states are `state`; the bytes it writes ahead of their second half
are in `target`, which is what `WithinTarget` bounds.  Any bytes may be encoded
and any text decoded (`Inputs`, `Sources`, `Sizes`); `Utilities` gives TLC a few.
`OneTextEach` compares a text that was accepted with `Encoding`, which gives the
k-th character of the text of some bytes without a loop.

### SslClient

poll, read, SSL_write, SSL_read and each write of the loop are steps; pipes
and sockets hold `Capacity` bytes, a byte is its number.  SSL_read and write
may fail at any time, which ends the program (`ReadFails`, `WriteStdoutFails`).
Two things are as in the code.  After a short write it goes on at `&buf[i]`, where buf is an array
of size_t (`ssl_client.c:84`, `:114`): `Width` bytes for each that was
written.  `ReplyInOrder` therefore holds the contents to be right until stdout
first takes less than it is given, which a pipe does not do to a blocking
writer that is not interrupted, and counts the bytes ever after.  And poll does
not tell a record without data, such as a session ticket, from data: SSL_read
then waits for the next record while stdin waits for nobody, which is the
second way for `EndsOrWaits` (in the run, `ClientEndsOrWaits`) to come out.

## 3. Runs

| run | bounds | what it shows |
|---|---|---|
| `aaudit_serial` | one process at a time, two kills, two edits, a visible and an invisible file that git may take for each other, fair; 698,540 states | the log of `AuditLog`; true answers; the inductive invariant; master comes to hold what the host has |
| `aaudit_overlap` | two processes, any requests, no kill; 406,820 states | no import branch is left behind |
| `aaudit_creates` | three creates; 95,042 states | a create that is told of success leaves a master |
| `aaudit_false_committed` | two processes | finding: "Committed" with nothing recorded |
| `aaudit_false_no_changes` | one process | finding: "No changes detected" with nothing recorded |
| `resolver` | two queries of one question, two ids, up to two servers, three growing delays, fair; 506,592 states | sockets, answers, who is asked; lookup returns |
| `resolver_no_wakeup` | one coroutine | finding: it is never woken |
| `rb_tree` | eleven keys, loops over trees of six of them, fair; 417,428 states | order, links, balance, walks, refinement of `OrderedSet`, operations end; loops come to all that stays, once, in order |
| `containers` | queue: five elements; splay tree: seven keys, fair; 182,843 states | queue states, nothing overwritten, refines `Fifo`; splaying loses nothing, refines `OrderedSet`, answers as it does, ends |
| `queues` | six kinds, two heads, four elements; 73,270 states | links represent lists, debug checks fail where a back link is wrong and nowhere else, walks go back, loops come to all that stays |
| `queues_moved` | lists, two heads, two elements | finding: the checks stop a program that goes on with a moved list |
| `utilities` | argz: vectors of six bytes, texts of three, two letters, two strings for argz_create; base64: four bytes, any five of six characters, targets up to nine; ssl_client: three bytes each way, pipes of two, fair; 490,581 states | argz against sequences; encoding and decoding; both streams in order, and an end |

Why the bounds are enough: one process leaves at most a torn or a published
import behind, and a second kill can hit the process that finds it; two edits
give a history of three commits, the shortest in which an import can be
neither master nor its child.  A file that nobody is notified of and one that
is watched, with one contents, make the rename that hides a change.  Five
elements make every arrangement of the
three runs, with runs of one and of two.  Two ids and two queries make every
way in which queries share an id, and two servers with three delays every way
to come to the last server, or the last delay, with and without an error; the
proofs have any numbers of them.  Eleven keys are the smallest
trees in which the lack of a black moves up a level and meets a red sibling.
Six keys in a loop are a tree in which the body's insertions and removals
rotate at and above the element that was saved, on either side; the proofs do
without that bound.  Seven keys in a splay tree make a path long enough for a
zig-zig and a zig-zag one after the other, with elements on both sides.  A
macro of `queue.h` touches an element, its neighbours and a head: a list of
three, or of four, has them all distinct, and two heads let elements go from
one to the other; the proofs say the rest.  Two letters, one of them the
delimiter, and texts of three make a match at each end and in the middle, and
one that overlaps the next.  Five characters are a whole quantum and the
beginning of the next, or a padded one with a space in it.  Pipes smaller than
request and reply make everybody wait for everybody.

`utilities` does not check for deadlock: conversions return and the client
exits.

### Fairness

`aaudit_serial`: a process that runs goes on (weak fairness of its steps);
the stamp grows old; cron starts a pull that is due again and again though
administrators may keep the server busy, the host can be reached again and
again, and so can the mail server (strong fairness): nothing converges for a
host that is down for ever.  `resolver`: time passes, and the thread, which
nobody can block longer than the four seconds of select, comes to the end of
`receive` and through the retries, with or without an error (weak fairness of
`Tick`, of `NothingToReceive` and of `Retry` or `RetryRaises`).
`rb_tree` and `containers`: an operation that has begun runs on (weak fairness
of the loop steps; nobody need call).  `utilities`: the client runs, its user
writes the request and reads what it gets, the server reads, replies and
closes (weak fairness of each of the three); that the user ever closes stdin,
that a ticket comes, or that the server leaves early, is not assumed.

## 4. Findings

1. `aaudit-server.lua:360` answers "Committed" without looking at what git
   did: a create is told so, while there is no master, when a commit that
   overlaps it has found no changes and deleted the branch import under it.
2. `aaudit-server.lua:366` answers "No changes detected" whenever there is no
   branch import to show: after a create whose archive was cut short each
   later commit is told so, and nothing is ever recorded.
3. `dns.lua:649` looks for waiting coroutines under the fields of the list of
   questions: no coroutine is resumed, and none leaves the wanted list.

4. `LIST_MOVE` (`queue.h:214`) leaves the back link of the first element at
   the old head: the header's own checks (`:226-239`) stop the program when it
   inserts at the head of the moved list or after its first element, and
   without them a removal of that element writes to the old head.  The header
   says that any element can be removed, and elements be added at the head or
   next to any (`:52-55`).

What the code does, without a run that is violated by it:

* a change that git shows as a file renamed from a path nobody is notified of
  to one that is watched is recorded without a mail (`aaudit-server.lua:275`):
  `MustBeMailed` leaves it out;
* a kill between truncating and writing `aaudit-repo.json` loses recipients and
  address, and every later process goes on without them (`ConfigIsKnown`,
  `Auditable`);
* two processes on one repository may publish what only the other has
  diffed and mailed (`aaudit-server.lua:346`, `:357`): the log is kept by
  processes one at a time;
* `enqueue` on a list that dequeue has not seen forgets its elements
  (`ztact.lua:176`, `:203`; the comment at `:202` calls the branch that of an
  empty queue): `Forget`, `left`;
* the retry to a second name server raises, and the next pulse after an error
  that was caught moves the query on, in the end around to the first again:
  `OnlyFirstIsAsked`;
* argz_insert with a pointer inside the first entry reads, and may write, in
  front of the block, where the comment has it find the beginning of the entry
  (`argz.c:205`; before that, `:189` asks for an existing entry): `Wild`;
* argz_add_sep and others lose the vector and keep its length when an
  allocation fails (`argz.c:256`): `Lost`;
* `ssl_client` goes on at the wrong place after a short write, and may wait in
  SSL_read for a reply to what it has not yet read (`short`, `Waiting`);
* argz_replace counts strings, its comment says replacements.

The properties allow these, each by a named exception, and so do not catch
them; the list of hazards says so where no other property does.

## 5. Proofs

| theorem | module | says |
|---|---|---|
| `TypeCorrect` | `Aaudit_proofs` | the types of Aaudit, for any number of processes |
| `OverlappingCleanUp` | `Aaudit_proofs` | with none killed, no import branch outlives the processes, however many overlap |
| `RacingCreates` | `Aaudit_proofs` | creates that race leave a master if any of them was told of success |
| `SerialInvariant` | `Aaudit_proofs` | the invariant of processes that run one after the other |
| `AauditKeepsAuditLog` | `Aaudit_proofs` | Aaudit then implements `AuditLog`, however git pairs renamed files |
| `CommittedIsTrue` | `Aaudit_proofs` | the answer "Committed" is then true, for a process that found no branch left behind |
| `NoChangesAreNone` | `Aaudit_proofs` | and so is "No changes detected", where there is a master |
| `QueueStates` | `Containers_proofs` | the queue states of the comment, and what else the table may hold |
| `NoOverwriting` | `Containers_proofs` | no waiting element is overwritten but by an enqueue on a list that dequeue has not seen |
| `QueueIsFifo` | `Containers_proofs` | the queue implements `Fifo` |
| `StaysSearchTree` | `RBTree_proofs` | order and links of the red-black tree, at every step |
| `StaysRedBlack` | `RBTree_proofs` | its balance, between operations |
| `KeysAreASet` | `RBTree_proofs` | it implements `OrderedSet` |
| `QueriesAreRight` | `RBTree_proofs` | find, nfind, next, prev, min and max answer as that set does |
| `AlwaysRepresented` | `Queues_proofs` | the links of all six kinds of list are those of the program's sequences |
| `ChecksAreExact` | `Queues_proofs` | the checks of QUEUEDEBUG fail at the first element of a moved list until it is mended, and nowhere else |
| `LastAndPreviousAreFound` | `Queues_proofs` | the macros that go backward or around find what they look for |
| `LoopsComeToAll` | `Queues_proofs` | a loop comes to all that its body leaves in the list |
| `TypesAlwaysRight` | `Queues_proofs` | heads never hold what a removal leaves behind |
| `SocketsAreThere` | `Resolver_proofs` | the socket is open while a query waits |
| `RepliesCountOnce` | `Resolver_proofs` | replies cached and queries waiting are at most the queries sent |
| `OthersAreNotAsked` | `Resolver_proofs` | a query that is sent again goes to the first server, from the last and with the next delay, whatever was raised |
| `TreeLoopsComeToAll` | `RBForeach_proofs` | a loop over the red-black tree comes to all that its body leaves |
| `TreeLoopsGoOneWay` | `RBForeach_proofs` | and goes in one direction, so to none twice |
| `SplayStaysSorted` | `Containers_proofs` | order and types of the splay tree and of its parts, at every step of a splay |
| `SplayKeysAreASet` | `Containers_proofs` | it implements `OrderedSet`: splaying loses nothing |
| `SplayAnswersAsASet` | `Containers_proofs` | its operations answer as that set does |
| `ArgzIsWellFormed` | `Argz_proofs` | unless a failure has lost it or an insertion has spoilt it, the block is NULL and its length 0, or it ends in a NUL and has that length |
| `ArgzQueriesFindAll` | `Argz_proofs` | count, extract and next agree on the strings of the vector |
| `ArgzDoesAsMeant` | `Argz_proofs` | every call does to the sequence of strings what it is for, or fails as the code fails; only an insertion at a pointer inside the first entry may spoil the block |
| `Base64StaysWithinTarget` | `Utilities_proofs` | no byte is written beyond the target, of any size |
| `Base64RoundTrip` | `Utilities_proofs` | what was encoded is decoded, for bytes of any length |
| `Base64OneTextEach` | `Utilities_proofs` | an accepted text is the encoding of its bytes, but for spaces |
| `InOrder` | `Utilities_proofs` | request and reply arrive in order and complete, for any lengths of them and of the pipes |

Two hypotheses go beyond the assumptions stated with the constants.
`SerialInvariant`, `AauditKeepsAuditLog`, `CommittedIsTrue` and
`NoChangesAreNone` assume `OneAtATime`: any two processes are the same.  They
are false without it, which is what finding 1 shows; the assumption is
what a lock around `handle()` would give.  `RacingCreates` assumes
`OnlyCreates`: the requests are creates, and none is killed.  That is the
question it answers and what the run `aaudit_creates` is given; with a commit
among the creates it is false, by finding 1 again.  `OverlappingCleanUp` needs
neither.  Everything else follows for any files, contents, keys, elements,
texts and bounds.  Of keys it is assumed that they are integers, which stand
for the user's comparison, a total order of the elements, and that NULL, and in
a splay tree the local node, is not one; of letters that they are positive
numbers, of which the delimiter is one, so that a NUL ends a text and is not
part of it (`LettersAreNoNul`, `TextsAreOfLetters`), and that neither NULL nor
`Wild` is a block (`NullIsNoBlock`).

### aaudit

That master only grows, and only after the mail, is not inductive.  The
invariant `SerialInv` adds what is on disk between processes: a branch import
is absent, master itself, the empty torn root, or one commit ahead of master
(`ImportIsNear`); a process that streams has made a commit ahead of master,
and what it is about to publish is one ahead, has changes, and has been
mailed if it must be (`WorkIsAhead`: a process publishes without a mail only if
some pairing of renamed files showed it nothing visible, which is what
`MustBeMailed` denies); what it read of `aaudit-repo.json` is
still so (`ConfigIsKnown`); and a repository under creation is empty
(`NewIsEmpty`).  Each step of a process keeps each part; a step of Aaudit
then maps to `Mail`, `Record` or `Address`, or changes nothing of the log.

The answers are true because of `CleanInv`, which follows the commit of a
process that found no branch left behind: one ahead of master and made of the
tree that it was sent, in fast-import until that ends, then on branch import,
and in the end on master.

With processes that overlap, `SomebodyCleans` says that while there is an
import branch, and nothing was killed, some process stands where each way out
deletes it: that takes a look at every exit of `repo_update`, and at two
processes that delete each other's branch.  `CreatesInv` is about the time
before the first publication: until there is a master nobody deletes the
import branch, so that every process behind fast-import finds one, a root
commit with the host's files, and has something to publish.  It needs that a
host is never without files (`HostHasFiles`), or the diff would be empty.

### The queue of ztact.lua

`PossibleQueueStates`, which has a word for the slots of a forgotten list
(`left`), is inductive together with the types and the shape of the list before
the first call; the slot that each branch of enqueue fills
lies outside all three runs, which gives `NoOverwriting`.  The queue that the
table stands for is what its runs hold, one behind the other (`Items`).  A
dequeue takes the first of it, from the first run that is not empty, and an
enqueue adds to its end, whichever run it extends or begins, unless it is the
first call and there was a list, which is the abstract `Forget`: that is
`QueueIsFifo`.

### The red-black tree

All that `RBTree` says of safety is proved, for any set of keys, finite or
not, and trees of any size.  Its properties and queries are recursive
walks, and the invariant is not: it says that there are functions d, the nodes
at and below a node, and h, the black nodes on a way down from it, that agree
with the links one by one (`Tree`, `Balanced`).  So a rotation, whose proof by
walks would have to follow every path, disturbs d at two nodes (`Turned`) and
h at two (`Rotated`).  That a walk returns what d and h say is shown with the
induction that is within reach: of any set of nodes that is not empty, one has
no child in it and one no parent (`LowestNode`, `HighestNode`), by the
well-founded order of finite sets.

`IsRedBlack(t, D, q, z, e, f)` is the balance of a tree while an operation is
under way: on side z of q a black node is missing, and of a red node and its
red child the child is e or the parent is f.  RB_INSERT_COLOR begins with e the
new node and nothing missing and moves e up two levels or ends;
RB_REMOVE_COLOR begins with a black missing where the node was and moves the
gap up one level or closes it.  Each case of the two loops is a lemma that says
which of these a tree has after it.  Between operations nothing is missing and
no red pair is left, which is `StaysRedBlack`.  Removing a node with two
children is the removal of its successor, which then takes its place and its
color (`TakesPlace`).

Next and prev are right because the keys beyond those below a node, on either
side, are what its ancestors on that side have (`OneSide`, `Beyond`); nfind
because the least key not below the argument stays among the nodes below or
is the one last passed (`KeysFrom`).

### Loops over the red-black tree

The body of a loop may change the tree at will, but for the element that the
macro has saved (`y`).  What the loop must still come to (`missing`) is at y or
beyond it, in its direction: that holds when the body inserts, which adds
nothing to `missing`, and when it removes, which takes the element away from
it.  It holds when the loop goes on because RB_NEXT of y, on whatever tree the
body has left, is the least key beyond y, which `RBTree_proofs` gives between
operations: a loop goes on only when no operation is under way.

### The splay tree

A splay pulls the tree apart: what is smaller hangs from the right link of
`Node`, what is larger from its left link, the rest is below `root`, and a
removal that splays again holds a fourth tree.  `SplayInv` says that there is
a function d of the nodes below each node that agrees with the links, as for
the red-black tree, that these four sets are apart, and that each lies on its
side of the rest.  The links at the two tails still lead into the tree; with
those taken out (`Links`) all four are trees, and each tail is next to what is
still searched: the greatest of the smaller ones, the least of the larger.  A
rotation changes d at two nodes, a link adds the root and what is beyond it
to one side, and SPLAY_ASSEMBLE hangs the root's subtrees where those tails
end; one lemma for each says what is a tree after it and with which nodes.

What was passed by lies away from where the search goes: everything smaller
is below the key and everything larger is above it.  So when the loop stops the
root is the key, or one of its neighbours, which is what find and insert rely
on; next is then the least of the right subtree, and a removal that splays the
left one for a key greater than all of it ends at its greatest, whose right
link is free.

### The lists of queue.h

Every property of the run `queues` is a theorem, for any heads and elements.
`Represented` says that the cells hold what the sequences demand.  It is not inductive alone: the search loop of the REMOVEs is a
function of all elements, also of those in no list, and only if their next
links hold `Poison` (`Unlinked`) is there such a function at all; and the back
link of a moved list's first element is right only with respect to `origin`.
`IInv` adds both and the types (`Shape`).  The proof goes by effects: what an
insertion, a removal or a replacement at a place does to the four kinds of
cell is stated once, whatever keeps to it keeps `IInv` (`InsertionKeeps`,
`RemovalKeeps`, `ReplacementKeeps`), and each macro of each kind is shown to
keep to it.  That the search ends at the element before is an induction, which
is done with the greatest place at which it would fail (`Greatest`).  CONCAT
and LIST_MOVE, which take lists of any length, have proofs of their own.

The loop has an invariant over that (`LoopInv`): what it must still come to
lies at or behind the element it has saved, in its direction; and insertions,
removals and replacements leave the order of the others (`OrderInserted` and
the like).  The proofs assume that heads and elements are different things,
and that NULL and what a removal leaves are neither, nor the address of a
cell.  Both invariants also hold in the instance of the run.

`ChecksAreExact` needs both directions.  Where the back link is right the check
passes; where it is stale it points to the cell of another head, which holds
something else, since no element is first in two lists (`StaleLink`).

### argz

The reference definitions, as most of the code, are recursions over bytes: what
a block of bytes holds is no invariant that a step could be shown to keep.  The
proofs say instead that a block b is a vector of the strings s when there is a
sequence st of the places where they begin, each string ending at the byte
before the next one begins, and b nothing else (`VectorOf`, `IsVector`).  The
invariant `ArgzInv` is that the vector is lost or spoilt or is one of some strings,
with its length.  From st follows what the queries return (`QueriesFind`) and
what the reference takes the strings to be (`VectorFacts`), and with it
`WellFormed` and `QueriesFindAll`.

`DoesAsMeant` needs, for each function, that a vector of s becomes a vector of
the strings that are meant, or is left as the failure leaves it (`Outcome`):
`AddHeld`, `CreateHeld`, `DeleteHeld`, `InsertHeld`, `StringifyHeld`,
`CreateSepHeld`, `AddSepHeld` and `ReplaceHeld`, for any number of strings of any
lengths and wherever the pointer given points; an insertion at a pointer inside
the first entry has `Wild` as another outcome.  Two of them are the hard ones.
Text with delimiters is cut word by word while the code goes letter by letter;
and argz_replace copies nothing until it has met the first match, so that the
invariant of its loop (`Going`) has two cases: no string so far has a match,
or the new block is a vector of the strings done, each with its matches
replaced.  The code replaces match by match (`Substituted`), the reference
letter by letter (`Substitute`); they agree because a stretch without a match
is copied (`Unmatched`).

That the recursive functions in all of this exist is itself to be shown, of
the parts of them up to or from a place on (`StepsExist`, `JumpsExist`).  The
inductions are the one the provers can be given: a set that has 0 and with each
number the next one has them all (`Upward`, `Downward`), which follows from the
greatest element of a finite set of numbers.

### base64

With q quanta behind it the encoder has written 4 * q characters, which are
the beginning of `Encoding(given)`; each step adds four more of it.  The decoder
keeps `Decodes`: after d digits its bytes are those that the digits make, the
last one perhaps of high bits alone.  A text with the beginning of an encoding
has therefore the bytes of that beginning (`RoundTrip`, with a case for each
length modulo three), and an accepted one that has the digits of its bytes, the
bits beyond the last byte zero by `ValidPad`, and the padding that belongs to
their number is `Encoding` of them (`OneTextEach`).  `WithinTarget` follows from
`Room`, which asks, before each digit, for every byte that the digit reaches
into.  All arithmetic is done on one quantum, three bytes
and four digits.  Bytes are the numbers from 0 to 255; nothing bounds the
lengths.

### The resolver

All that the run `resolver` checks but liveness is proved, for any schedule of
delays, any number of servers, ids and questions, and any finite set of TTLs
(`TTLsAssumption`; with infinitely many there need be no largest life).
`AnsweredOnce` and `SocketWhileWaiting` are inductive together with the types
and with the entries of `active` being finitely many, so that retiring one lowers
their number by one (`Inv`); at which server an entry is does not matter to
them.  `OnlyFirstIsAsked` follows: a query gets a new deadline only when it is
sent, which needs a socket, and only server 1 has one; a retry that comes to
server 1 has wrapped around from the last, and one that raises leaves its
deadline as it was.  That the largest of
a finite set of numbers exists is an induction again, done with the
well-founded order of finite subsets (`LargestIs`).

### ssl_client

The invariant puts each stream together from where its parts are: what the
server has, the socket, the buffer while it is to be sent and stdin are what
was asked, in order; what the user has, stdout, the part of the buffer still
to be written and the data of the records on the way are what was sent.
Nothing else needs to be known but that a ticket is the first record if there
is one (`TicketFirst`), and that a write goes on at the buffer's beginning
until one comes up short (`Holding`).

### Only model-checked

Liveness, which needs fairness: `Converges`, `LookupReturns`,
`OperationsReturn`, `SplaysEnd`, `ClientEndsOrWaits`, `AllArrives`.  Every other
property of a run that passes, and each invariant, is a theorem.

## 6. Not modelled

* `aaudit-repo`'s loop over the repositories: it keeps a list of texts and
  nothing else from one repository to the next; what it does to one is in
  `Aaudit`.
* The tar decoder of the server and the packets of `dns.lua`: pure conversions
  of bytes, a model of which would repeat the code.
* `ztact.lua` `set` and `get`, and printing: calls on tables of their caller
  that keep nothing between two calls.
* The object store under `git gc --prune=now`: what git deletes, and when, is
  git's.
* Options, certificates and the handshake of `ssl_client`: library calls, each
  of which ends the program when it fails.
* getconf, getent, iconv, `timepps.h`, `bbsuid.c`, the udhcpc script, image
  builders, init scripts and hooks: front ends that run calls or commands in a
  fixed order, whose effects are those of libc, the kernel or the tools.
* Recipes, patches and configuration: data.

What would add most next: the loop of `aaudit-repo` over its repositories,
together with the archive that ends within an entry; and the object store of
git, to see what `git gc --prune=now` may take from a process beside it.

# A TLA+ model of JSPP

JSPP is a small Java-like scripting language written in C: a one-pass compiler
(`jspp/src/parse.c`, `program.c`) emits 16-bit bytecode and a stack machine
(`jspp/src/interpinner.c`, `interp.c`) runs it for an embedding application.
The repository also holds a C support library (`splc/src`) and a server that
runs stored SQL statements (`splc/*.c`, `sqlparser.c`). This directory models
the compiler and the machine, the objects and the native classes of the
language, the SQL server (connections, logons and permissions, stored
procedures, transactions) and the translator of stored procedures, checks them
with TLC and proves invariants of the machine, of the native classes and of the
server with TLAPS.

Paths below are relative to the root of the repository.

## 1. Inventory

| component | state | operations | hard behaviours |
|---|---|---|---|
| variants (`variant.c`) | a tagged union | assign, reference, dereference, cast, the operators | references into vectors that move; 32-bit arithmetic at its limits; VOID has no data |
| bytecode machine (`interpinner.c`) | one operand stack shared by all frames; per frame locals, block frames, pc, error, return value | one per opcode; calls, returns, exceptions | every way out of a block or a method (break, continue, return, throw, error, native error) has to give back exactly its own operands and locals |
| interpreter entry points (`interp.c`) | prepared programs, classes, the machine | prepare, run, call, resolve | a run that fails leaves the machine as the next run finds it |
| compiler (`parse.c`, `program.c`) | current method's code, stack of symbol tables, `isrhs` | one per production | back-patched jumps; operand balance on every path; one global flag |
| classes (`jsclass.c`, `native.c`) | fields, methods, vtables, reference counts | prepare, new, construct, call, base call, calls of a host | constructors that fail or throw half way; who holds an instance while C functions wait for a call |
| native classes (`intrinsics.c`) | elements of arrays, vectors, tables | constructors, `[]`, add, put, clear | references to elements that outlive their element; containers that hold one another |
| lexer, dump, command line | position in a buffer | next token; print | none: sequential text processing |
| libraries (`jsocket.c`, `jdes.c`, `jhttp_lib.c`) | private data of an instance | native calls | may fail at any call |
| support library (`splc/src`) | hash tables, vectors, buffers, sockets | collections and I/O | partial receives |
| request loop and statistics (`runcheck.c`, `request.c`, `stats.c`) | the connection, one buffer, tables of the last calls | accept, read, parse, dispatch, reply | messages in pieces, clients that leave, state that outlives a call |
| logons, permissions, procedures (`users.c`, `stmtmgr.c`, `preparedstatement.c`) | statement cache, users and permissions, a local SQLite store | grant, create, drop, exec | several servers share one store, each with a cache of its own |
| transactions (`stmtmgr.c`, `runcheck.c`) | the transaction the process is in | begin, resume, suspend, commit, abort | calls of the transaction manager that fail, time-outs, requests of several clients in one process |
| SQL translator (`sqlparser.c`) | position, text written, parameter places, result names | one per production | tokens read once too often or too seldom on rare paths |

The compiler calls nothing of the machine; they meet in the bytecode. The
machine calls native methods and is called again by the application. Everything
in `jspp/` is single-threaded (`docs/interpnotes.txt`: "qinterp is not
reentrant"), so the only sources of nondeterminism are the program, what natives
answer and values the C code reads without having set them.

What makes each part correct:

* machine, whatever bytecode it runs: blocks stay nested, the loop of a break
  ends, references do not leave the operand stack, a run leaves nothing behind;
* compiler and machine together: a compiled method does what its source says,
  no instruction misses an operand or uses one of a caller, a call leaves
  exactly its result, every run ends;
* classes: instances live as long as they are referenced and no longer, a call
  runs the nearest method, constructors run once and base first;
* native classes: an element has one owner, a reference stays with its element,
  a container holds what was put into it;
* connections: what is served is what the client sent, what is sent is one whole
  reply, every call ends and is recorded;
* transactions: a procedure runs in the transaction its request names, and what
  names none stays out of all of them;
* translator: an accepted statement is translated word for word;
* SQL server: what a server keeps in memory is backed by the database through
  failures, restarts and other servers; nobody executes a procedure without a
  permission on file, or a text that was never saved.

`PROJECT.json` lists the main hazards line by line under `hazards`.

## 2. Modules

| module | stands for |
|---|---|
| `Variant` | values and operators of `variant.c`, with words of `2 * HalfWord` values |
| `Interp` | the machine: one action per kind of opcode, `MethodExit` for the end of a call, `Run` and `RunExit` for `qinterpRun` |
| `Compiler` | code generation: an operator per production, from a parse tree to bytecode |
| `Syntax` | constructors for parse trees, and the methods every checked program has |
| `Source` | the meaning of a parse tree, evaluated structurally with no bytecode: the reference for `RunsAsWritten` |
| `MCInterp` | the structured sublanguage, native answers and word size for TLC |
| `MCStructured` | the comparison of compiled runs with `Source` |
| `MCMachine` | arbitrary bytecode for TLC |
| `MCFindings` | programs on which the code departs from its own assertion |
| `Objects` | `jsclass.c`, `native.c` and the parts of `interp.c` and `interpinner.c` on classes: preparation, `NEW`, constructors, calls, fields, exceptions, reference counts, calls of a host |
| `Natives` | `intrinsics.c`: every method of the native classes, on a heap of instances and cells |
| `Users` | `users.c` and the start of a server in `runcheck.c`: logons and permissions in memory and on file, for several servers on one database |
| `StmtMgr` | extends `Users` with `stmtmgr.c`, the functions of `preparedstatement.c` on the table `SPROCS` and the requests of `runcheck.c` |
| `Catalog` | the abstract specification of one server of stored procedures, which `StmtMgr` implements |
| `Transactions` | the branches of `stmtmgr.c` and `runcheck.c` that begin, resume, suspend and end transactions, an action for each call of the transaction manager |
| `Connection` | the loop of `main`, the reading of a request from socket and packet, `requestNew`, the administrative requests, `stats.c` |
| `SqlParser` | `sqlparser.c`: an operator per parse function, from a sequence of lexemes to the translation |
| `MCUsers`, `MCStmtMgr`, `MCTransactions`, `MCConnection`, `MCSqlParser`, `MCObjects`, `MCNatives` | the values of their constants for TLC |
| `InterpProofs`, `StmtMgrProofs` (also of `Users`), `TransactionsProofs`, `ConnectionProofs`, `ObjectsProofs`, `ObjectsCounts`, `NativesProofs` | the theorems |
| `Counting` | lemmas on finite sets that the last three share |

How state corresponds: `stack` is `qip->stack`; `frames` is `qip->frames`, whose
last element is `curframe`; a frame's `base` is `stackcount` less the arguments;
`blocks` is `blockframes`, where `floor` is the number of locals below a block
(the code keeps the number of locals of the block itself, which is the
difference). A value is `[t, v, f]`: type, integer and, for a reference, the
number of the frame (`f`) and the slot (`v`) it points to. `prog` never changes.
`answers` and `out` are the dialogue with the natives; `results` what each
`qinterpRun` returned.

`Interp` models the release build: an `ASSERT` is not a guard but a claim that
is stated as a property. A pop of an empty stack, a fetch outside the code and a
division trap set `fault`, and the machine stops: in C each of them reads or
writes outside of an object or raises a signal, and nothing sensible can be said
of what follows. `JMPZ` and `JMPNZ` on a VOID value are nondeterministic, since
`data.i` of a VOID was never set.

A write or read through a reference to a slot that has been popped is modelled
as VOID or lost. In C the slot is still within the vector's memory, cleared;
`OperandsOwned` shows that compiled code of the structured sublanguage never
does it, except for a thrown local variable (section 3, findings).

### Objects and native classes

`Objects` leaves bytecode to `Interp`. What a method does is any sequence of the
steps that the compiler emits for one expression or statement (`OP_NEW`, a call,
a store into a field, `throw`), so that a run goes through every program over
its classes at once. C functions that wait for a call to return (`callConstructors`,
`createJSClassInstance`, `qinterpCall`) are activations on the same stack as the
frames; each holds the references the C code has counted for it, and
`References(i)` adds up who holds instance `i`. As in `Interp` the build is the
release: an `ASSERT` is no guard. `flaws`, `fellback` and `missed` are histories
of the paths on which the code is known to miscount; the properties name which
ones they exempt.

Every class that declares no base gets `Object` for one, so `Object` is the only
root. Two consequences show in the model. A table is copied from that of the base
class before the base class has its own base, when that one is declared later:
`Seen(c)` is how far `c` sees, and what is beyond is not found. And the loop of
`createJSClassInstance` goes on to `Object`, which has no constructor: with an
argument, the construction by a host ends there in `UNKNOWN_METHOD`.

`Natives` has one method's variables and everything it can do with containers in
them. A cell is a variant that a container owns. A pending reference is what
`[]` pushed: between it and the read or the assignment any other call may come,
as in `v[0] = f()`. The vector and the hash table inside the containers belong
to a library that is not in the repository and are external: an element beyond
the end is NULL, and `hashtableAdd` of a key that is there either replaces the
entry or hides it (the model takes both). Negative indexes and lengths of zero
are not enumerated for elements, since what that library does then is unknown.

The array of arguments that the command line hands to `main` is held twice: by the
variable of `main`, and by the `this` that `createJSClassInstance` pushed and left
on the operand stack, under the frame. `Below` is that place. It is emptied with
the variables when `main` ends (`Leave`): `qinterpRun` then takes what is left for
the result, or `qinterpDestruct` clears the rest of the stack. So `args = null`
does not destroy the array.

### The SQL server

A server is one thread, and each request is handled to its end before the next
is accepted. But every SQL statement on the SQLite file is a transaction of its
own, and several servers may be started in one directory. An operation is
therefore one action per SQL statement: `op[s]` holds what server `s` keeps on
its C stack between two of them, and other servers, or the end of `s` itself
(`Stop`, `Exit`), may come between.

`USERS`, `PERMS` and `SPROCS` are the tables on file. `m_uid2pw`, `m_uid2perms`,
`m_perms` and `m_stmts` are the hash tables of each server, with their names in
the code. Hash tables that ignore case are functions from keys, the database
tables from spellings; `UidKey` and `NameKey` map one to the other. `Names`
stands for `SYSTEM.PROCNAME` as a request spells it.

`Fail` is an SQL statement that fails. The code treats failures differently at
each place, and so does the model: a failed read is the end of the table
(`Start`, `LoadPerms`, `ListProcs`), a failed `DELETE` before a `CREATE` is
ignored (`ReplaceProc`), a failed `INSERT` of a logon leaves it in memory
(`InsertUser`), a failed `INSERT` of a procedure frees the statement and leaves
its pointer in the table (`SaveProc`). Where the code follows a `NULL` it crashes,
and the request's action is not enabled, `Exit` is; a freed statement may crash
as well or answer "undefined", about which nothing is claimed.

`Transactions` is the build for Tandem, whose transaction manager (TMF) is
external: every call to it may fail, and it may abort a transaction at any time.
A request is a sequence of steps, and `current` is the transaction the process
is in. `mishap` records a failing call, a time-out under the process, or one of
the two paths on which the code itself stays in a transaction: an `EXEC` that
does not parse and an immediate statement that names a live one.

`Connection` is the server as the Makefile builds it, with `DEBUG`: a failing
`ASSERT` ends it, and no time limit is set on the socket. A message is a header
and typed fields of unit length; `Arrive` and `Leave` are the client. The fields
are read in order, and the first one that is wrong decides: a value
or a name of a request that is missing, or has a type letter that `packetNextType`
does not know, meets its `ASSERT`, any other wrong field only makes the request an error. A client may go at any time.
If it goes before its reply is sent, it has some beginning of the reply, and
`send` may raise `SIGPIPE`, which nothing handles and which ends the server. What a
statement answers is left to `StmtMgr` and `Transactions`: here it is any rows
or an error. The modules share no variable: `Connection` says which
request is handed on and that its reply goes out whole to a client that stays, the others what is done
for it. All of them treat strings as values; that `stringDup` loses the last
character (`splc/src/string.c:196`) is not in the model.

### The translator

`SqlParser` is a pure algorithm: each parse function maps the parser's state to
the next one, and a state with an error stays as it is, which is how the C
functions return. The specification is an author who starts from a beginning and
appends pieces as long as the text is accepted or only unfinished; `dp` is what
the parser makes of the text so far. The properties compare it with a reference
that looks at each lexeme in its place (`Rendering`, `Place`) and knows no
productions.

`granted`, `due`, `unsure` and `saved` are history variables that the properties
need; no guard reads them. `answer` is the last reply of each server.

## 3. Runs

| run | checks | shows |
|---|---|---|
| `structured` | `NoFault`, `OperandsOwned`, `RunsAsWritten`, `CallerOperandsKept`, `CallBalance`, `Terminates` | compiler and machine agree with the meaning of the source on the structured sublanguage |
| `machine` | `BlocksNested`, `BreakTerminates`, `NoPtrEscapes`, `IdleClean` | the machine's own invariants, on bytecode that no compiler vouches for |
| `users` | `PermsBacked`, `GrantsHonoured`, `LogonsBacked`, `PasswordsAgree` | two servers on one database, restarted at any point, with failing statements: permissions in memory are on file, answered grants are honoured, logons are on file and passwords those on file but for the exceptions the code makes |
| `catalog` | `CacheCurrent`, `RunsAuthorised`, `ImplementsCatalog` | one server with names in two spellings: the statements it keeps are the texts on file, procedures are executed with a permission on file only, as the request spells them, and the server implements `Catalog` |
| `servers` | `TypeOK`, `RunsSaved` | two servers: no text is executed that was not saved, however stale the cache |
| `transactions` | `ProcedureInItsTransaction`, `StatementsStayApart`, `EndsItsOwn`, `Answered` | two clients and two transactions: procedures run in the transaction they name, the rest stays out, `COMMIT` and `ABORT` end their own, every request is answered |
| `connections` | `RequestsWhole`, `RepliesWhole`, `CallsRecorded`, `AveragesOfLastCalls`, `EveryCallEnds` | three calls with messages of every kind, in pieces, cut short or left: what is served is whole, and so is what is sent to a client that stays; calls end, statistics are those of the last calls |
| `sqlparser` | `TranslatesAsWritten`, `BracketsKept`, `PlacesOfUses`, `ColumnsNamed` | every text of up to four pieces after each of the beginnings is translated word for word, with its brackets, parameter places and result names, but for the constructs the properties name: aggregates and functions in `SET` (`TranslatesAsWritten`, `BracketsKept`), selects within selects (`PlacesOfUses`, which covers `UNION`), renamed fields (`ColumnsNamed`) |
| `objects` | `NothingDangles`, `NothingLeaks`, `DispatchesToNearest`, `ConstructedInOrder` | five hierarchies, used by scripts and by a host, with exceptions anywhere: references are counted right, the nearest method runs, constructors run once and base first |
| `natives` | `CountsAgree`, `ElementsOwned`, `RefersToItsElement`, `HoldsWhatWasPut` | containers that hold one another, with references pending over other calls |
| `catch` | `OperandsPresent`, violated | a handler that runs to its end pops an operand nobody pushed |
| `array` | `BlockArraysHold`, violated | different indexes of an array of two dimensions are one element |

The type invariants of `Interp`, `Users` and `Transactions` are theorems (section
4) and not checked again; that of `StmtMgr` is checked by `servers`.

### The structured sublanguage

`structured` enumerates a few hundred programs: a prelude (a statement, a loop
left by break, a switch) followed by one statement of a grammar of ifs, loops,
switches, tries and simple statements two or three levels deep, with calls
to a method that may throw, to one that returns a value and to natives that
answer yes, no, an object or an error. The grammar leaves out the constructs
that are known to depart from their source: a catch block that runs to its end or
throws, a break after an inner loop, a switch without default or with a case that
falls through, a continue out of a switch, a for without a complete header, a
shift, a negated variable. It leaves out division as well, which may trap. So the
run says nothing of handlers that are found again after their statement or of
arithmetic at the ends of its range, and of break targets and of `finally` only
what the programs of the grammar can reach (`hazards`). On what is
left `RunsAsWritten` says that every run makes the native calls the source
makes, in order and with the same arguments, and returns the same result or
error.

### Bounds

* `HalfWord = 8`: words of four bits, so that additions and multiplications
  wrap around within a few steps.
* `MaxAnswers = 3` free native answers in `structured`; later ones are "no".
  Three is enough for a loop to be entered twice and for an error in its second
  turn. Because later answers are "no", every loop ends: `Terminates` shows that
  nothing else keeps the machine from ending, in particular no jump of the
  compiler leads back where it should not.
* `MaxRuns = 2` in `machine`: the second run starts from what the first left.
* `machine` takes two free instructions after each of three prefixes that open
  blocks, set a handler, set a break target or store a reference, and helpers
  that return or throw their argument. Jumps lead forward so that no code
  pushes for ever.

* `MaxFailures`: two failing statements in `users`, one in the runs
  of procedures and of transactions, where every failing step has a later step
  that meets its result.
* One server in `catalog`: two servers do keep stale statements, and
  `CacheCurrent` and `ImplementsCatalog` do not hold of them. What holds of any
  number of servers is checked with two.
* Two spellings of one id in `users`, of one name in `catalog`: the smallest case
  in which tables that ignore case and tables that do not disagree. `Grantees`
  limits who is granted to in `catalog`, where `sa` needs no grants.
* `transactions`: two clients with a transaction each are the smallest case in
  which one finds what another left; more add only repetitions, and the
  theorems hold for any number.
* `connections`: `HISTLEN = 2` and three calls, so that the third overwrites the
  first; `MaxRecv = 2`, so that a body takes several receives. Messages cover
  every branch of the dispatch and each way not to parse, a type letter that is
  not known in the place of a value, of a user and of a name included.
* `sqlparser`: four pieces of one to five lexemes after thirteen beginnings, one
  for each statement and clause; `PRMIDXLEN = 2`, so that the places run out.
* `objects`: below the intrinsic class `Object`, which the first declaration of
  every program is: one class with three calls from the host; two levels with two
  instances; three levels in two orders with six activations, the number that a
  construction with a fallback needs; and a class whose base is missing.
* `natives`: two variables, instances and cells and one pending reference, enough
  for a container that holds itself, one that holds the other, and a reference
  that is pending while its container is changed. Keys of two types with one
  text are there because the table goes by text and type.
* Symmetry only where no liveness is checked, over servers, texts and variables,
  which the specification does not tell apart.

### Fairness

`FairSpec` of `Interp` adds `WF_vars(Next)`: the interpreter is one thread that
runs as long as an instruction can be executed, and a native call returns.
`Transactions` and `Connection` have `WF_vars(ServerStep)`: the server is one
process that goes on whenever its next step is possible. Nothing is assumed of
clients or of the transaction manager beyond that its calls return; that the
header of a request arrives, or its client leaves, is a premise of
`EveryCallEnds`, because the server does wait for it without a limit.

### Findings

`PROJECT.json` quotes for both violations the line of the repository that is
contradicted: a handler that runs to its end meets the `JMPNZ` that ends its try
statement a second time and pops from an empty stack (`catch`); elements of an
array of several dimensions coincide, although arrays are said to be "block (not
ragged)" (`array`).

Further departures are in the model as they are in the code, the main ones listed
under `hazards`. They have no run of their own; the passing properties name what they
exempt, and the structured sublanguage leaves out what it has to. In the
language: a switch without default jumps to -1; a continue out of a switch lands
in the middle of the code; a break does not leave the blocks it breaks out of,
so that a later block may read their variables; leaving an inner loop erases the
break target of the outer one; a handler stays in force after its try statement;
a thrown local variable has been cleared before it is read; `<<` shifts right;
unary minus changes its variable; a constructor that fails with arguments is
answered by the base class's default constructor, on the wrong instance; a class
that is prepared before a base with a base of its own lacks inherited methods;
`Hashtable` loses values that are replaced or cleared. In the server: `DROP
PROCEDURE` leaves a key with a NULL value; `CREATE PROCEDURE` of a procedure
that is stored but not loaded fails and leaves a freed statement in the table;
an immediate statement in a live transaction is not executed, and one in a dead
transaction is. In the translator: `GROUP BY` is always refused, `<=` becomes
`<`, an aggregate swallows the token after it.

## 4. Proofs

TLAPS proves the following for every set of programs that satisfies
`IsProgram` (code that decodes, arguments that exist), every set of native
answers and every word size:

| theorem | states |
|---|---|
| `Invariance` | `Spec => []IInv` |
| `TypeCorrect` | `Spec => []TypeOK` |
| `BlocksStayNested` | `Spec => []BlocksNested` |
| `BreakLoopsNever` | `Spec => []BreakTerminates` |
| `ReferencesStay` | `Spec => []NoPtrEscapes` |
| `RunsStartClean` | `Spec => []IdleClean` |
| `CallersKept` | `Spec /\ []OperandsOwned => CallerOperandsKept` |
| `CallsBalanced` | `Spec /\ []OperandsOwned => CallBalance` |

The assumptions are the four named `ASSUME`s of `Variant` and `Interp`; none is
about the compiler. The lemmas about `Variant` show that each of its operators
yields a value that is no reference.

The invariant `IInv` strengthens the five properties to an inductive one:

* `FrameOK` of each frame: its locals and its return value are no references;
  its blocks are nested regions of the locals; the block count of the k-th
  block is at most k. The last is why the loop of `breakBlock` is never entered:
  `setBreak` stores the current number of blocks and `enterBlock` copies the
  count of the block around, so a count never exceeds the depth it is stored at.
* `FramesOK`: every frame is `FrameOK`, and the bottom frame has base 0. Without
  the base, nothing says that `leaveFrame` cuts the stack back to nothing, which
  is what `IdleClean` needs.

The step lemma has one case per action; lemmas about `leaveTo`, `enterBlock`,
`setBreak`, `StoreIn` and `getCatch` show that each keeps `FrameOK`.

The last two theorems share the work between the compiler and the machine.
`OperandsOwned` is what the compiler owes: an instruction only uses operands
that its own frame pushed. No bytecode verifier in the code enforces it, bytecode
can break it, and the run `structured` checks it for compiled programs. Given that,
the theorems say what the machine owes, for every program: no call touches what its
callers left on the shared stack, and it leaves there exactly what
`callStaticMethod` asserts. They rest on a second invariant, `BasesFit`: each frame
starts no lower than its caller, and the stack reaches up to the base of the frame
that runs. Every instruction but a call stays `Inside` its frame (one lemma for each
group of actions); a call starts a frame where its arguments were (`ScallFits`), and
its end cuts the stack back to just that base (`ExitKeeps`, `MethodExitFits`).

For any number of servers, users, spellings, permissions and failing statements,
`StmtMgrProofs` proves of `Users`, from `UsersAssumption` alone:

| theorem | states |
|---|---|
| `UsersInvariance` | `UsersSpec => [](UsersInv /\ UsersTypeOK)` |
| `UsersTypeCorrect` | `UsersSpec => []UsersTypeOK` |
| `PermsStayBacked` | `UsersSpec => []PermsBacked` |
| `GrantsStayHonoured` | `UsersSpec => []GrantsHonoured` |
| `LogonsStayBacked` | `UsersSpec => []LogonsBacked` |
| `PasswordsStayAgreed` | `UsersSpec => []PasswordsAgree` |
| `FilesOnlyGrow` | `UsersSpec => [][FilesGrow]_userVars` |

`UsersInv` adds to the properties that every answered grant is on file, without
which a server that reads `PERMS` need not find the grants that other servers
answered, and `LogonsAgree`: what a logon in memory, the row that a server is about
to insert and the row on file have to do with one another at each point of
`usersAdd`. The argument is the order of `usersAddPerm` and of `usersAdd`, and that
no statement deletes a row or changes one, which is `FilesOnlyGrow`.

The same module extends that to the procedures of `StmtMgr`, again for any number of servers on
one database, except for the last two:

| theorem | states |
|---|---|
| `StmtInvariance` | `Spec => []StmtInv` |
| `StmtTypeCorrect` | `Spec => []TypeOK` |
| `RunsOnlySaved` | `Spec => []RunsSaved` |
| `RunsOnlyAuthorised` | `Spec => []RunsAuthorised` |
| `OneServerCurrent` | `ASSUME OneServer PROVE Spec => []CacheCurrent` |
| `OneServerImplementsCatalog` | `ASSUME OneServer PROVE Spec => ImplementsCatalog` |

`SavedInv` traces a text backwards: what is answered was in the table, what is in
the table was read from a row or given in a request, and every row was saved.
`AuthorisedInv` says of a procedure that is about to be loaded what the answer has
to say: between the look into the permissions and the answer there are several
steps, of this server and of others, and `FilesOnlyGrow` is why the authorisation
is still true. `OneServer` (any two servers are one) is what the code needs for
the rest: with two servers `CacheCurrent` is false, because a server never reads
again what it has. `CacheInv` adds to it that while `DROP PROCEDURE` deletes the row
the table has no statement for its key. The refinement is
proved action by action under the mapping in `StmtMgr`; each step is a step of
`Catalog` or changes nothing of it.

For any number of clients, transactions and failing calls, `TransactionsProofs`
proves of `Transactions`, from `TransAssumption` alone:

| theorem | states |
|---|---|
| `TransInvariance` | `Spec => []TransInv` |
| `TransTypeCorrect` | `Spec => []TypeOK` |
| `ProceduresInTheirs` | `Spec => []ProcedureInItsTransaction` |
| `StatementsApart` | `Spec => []StatementsStayApart` |
| `EndsTheirOwn` | `Spec => EndsItsOwn` |

`TransInv` adds `StepsPrepared`, which says of each step of a request what the
steps before it have established (the process is in the transaction that the
request names when a procedure or the end of a transaction is reached), and
`Apart`, that without a mishap the process is in a transaction only in the middle
of the request that has begun it or names it. Neither property is inductive
alone: they speak of the last statement and of the time between requests.

For any set of messages, any number of calls and any size of the tables,
`ConnectionProofs` proves of `Connection`, from `ConnectionAssumption`:

| theorem | states |
|---|---|
| `ConnInvariance` | `Spec => []ConnInv` |
| `RequestsStayWhole` | `Spec => []RequestsWhole` |
| `RepliesStayWhole` | `Spec => []RepliesWhole` |
| `CallsStayRecorded` | `Spec => []CallsRecorded` |
| `AveragesStayOverLastCalls` | `Spec => []AveragesCover` |

`ConnInv` says, for each place of the loop, how the buffer is a beginning of the
message (`BufferRead`, `LengthReady`), that a reply waits to be sent only after a
request (`ReplyReady`; any beginning of it that is sent begins as it does and has no
end in its middle, `DocumentSent`), and which call each slot of the tables is of (`TablesKept`,
`LogKept`): the last one with its number modulo `HISTLEN`. The averages of
`AveragesOfLastCalls` are sums, folds with an operator as a parameter, of which the
provers know nothing; `AveragesCover` is the same statement without the sum: the
slots that are added are those of the last `HISTLEN` calls, each once, and they
hold the lengths of these calls.

For any variables, keys, argument lists and bounds, `NativesProofs` proves of
`Natives`, from `NativeBounds` (the variables are finitely many, the place below
them on the stack is none of them, arguments are lists of integers):

| theorem | states |
|---|---|
| `NativeInvariance` | `Spec => []NativeInv` |
| `CountsStayRight` | `Spec => []CountsAgree` |
| `ElementsStayOwned` | `Spec => []ElementsOwned` |
| `ReferencesStayRight` | `Spec => []RefersToItsElement` |
| `ContentsStayRight` | `Spec => []HoldsWhatWasPut` |

The difficulty is `varClear`: one call destroys a container, and with it values
that may destroy others, to any depth and around cycles. The proof is in four
parts.

1. `Sound(L, h, c, vs)` is the invariant of the middle of such a call: variables
   and what lies below them `L`, instances `h`, cells `c` and the values `vs` that are still to be cleared
   are well typed, every instance counts its references with those in `vs`
   (`Counted`), and every cell belongs to one instance, which lives (`Tidy`).
   `ClearStep` shows that one value cleared keeps it, and `Work`, the values left
   plus a cell's worth for every instance that lives, becomes less; so the number
   of steps that `varClear` of the model takes is enough, and it ends with nothing
   left to clear (`VarClearSound`).
2. `Kept` is what such a call leaves alone: an instance that lives afterwards is
   what it was but for its count, and one that does not has lost its cells. From
   it `TidyRest` gets `Rest`, the part of the invariant that is about elements and
   pending references: where an index is found (`Shaped`), what is there
   (`Holds`), and that a pending reference is to a cell of no other instance, at
   its own index (`Pends`).
3. Each method puts the old value on the list of values to be cleared and the new
   one where it belongs, so that the count is right before the call
   (`SwapSound`, `CellSwap`, `CellSound`), and changes one instance in a way that
   `Rest` survives (`ChangeRest`).
4. Three methods do it in another order: `setElementAt`, `clear` and an
   assignment through a reference clear the old values first, and change the
   container or the cell when the call is over. In between the counts are not
   right. The proof compares the run with one in which the change was made before
   the call: they are the same step by step (`AlikeRun`, where the instance is
   held by a variable of the caller; `ShadowRun`, as long as the cell is there),
   so that what is known of the second one is true of the first.

Neither `CountsAgree` nor `ElementsOwned` is inductive without the other, since
the finalizer clears what its instance owns; and neither is `HoldsWhatWasPut`
without `Numbered`, the relation of a pending reference to the history.

For any programs that satisfy `ProgramsAssumption` (there is a class, and each has
one declaration and is not among its own bases) and any number of instances,
activations, operands and calls from the host, `ObjectsProofs` proves of `Objects`:

| theorem | states |
|---|---|
| `TypesStay` | `Spec => [](ClassInv /\ TypeInv)` |
| `DispatchStays` | `Spec => []DispatchesToNearest` |
| `ConstructsInOrder` | `Spec => []ConstructedInOrder`, if every program is `Regular` |

`ClassInv` says of each class what `qinterpPrepare` has made of it so far. Tables
are copied, so what matters is when: a class that is linked has the table of
exactly the methods that it sees (`Nearest`), whether its base class had been
prepared, or only given a table by `jsclassInitVtab` on behalf of another class,
and a class that is not linked has at most the table of its own methods.
`TablesAre` and `UntabledAre` compute which tables one turn of the loop makes, and
`NearestRec` how the nearest class is found from that of the base class; both lists
of classes are recursive functions, and `ByRank` is the induction along the base
classes. From `ClassInv`, `FindsNearest` gets that a lookup in a prepared program
finds the nearest method.

`TypeInv` is what keeps the activations apart. The stack is in layers, in the order
of the activations: `Sits` says that the instance under construction lies, with its
arguments after it, above what all callers use and below the base of every frame
that the constructors run in. Without it nothing says that `callConstructors` cuts
from the stack what it has pushed, or that a constructor finds as many values as it
takes. The host is at the bottom and only there, an internal activation has the
arguments of the frame that calls it, and a construction is of a class that is less
deep than that of the construction below it: this is why only the outermost one,
whose class is that of the instance, takes the arguments off. These two theorems rest on
the shape of the heap alone, of which `ClearTypes` shows that clearing any list of
values keeps it.

`ConstructsInOrder` is about what has been called, `built[i]`, and what that should
be when `callConstructors` is done, `Due`. It assumes of a program that a method
that has the name of a class is a constructor of that class, and that `Object` has
none (`programDefineClass` in `interp.c:316` defines it so). Without it the theorem
is false: a subclass with a method of its base class's name and arity has that
method called in place of the base class's constructor, since the lookup starts at
the class of the instance. TLC evaluates `Regular` for the programs of `objects`
(`ProgramsRegular`). The invariant, `OrderInv`, adds to `Inv` that

* the calls of internal constructors go from the root to the class, and what is
  left of the list is what is not in `built[i]` (`InnerFits`);
* each construction within `callConstructors` is for the base class of the one
  below it (`Follows`) and, while no missing constructor was stood in for, has run
  `Ctors` up to its base class before it calls its own (`Reached`);
* with two levels below `Object`, a constructor that is still to be called has not
  been called (`Once`): this is what survives a fallback, after which a class may
  be constructed with no argument where it was to have some;
* an instance has one maker, or one for each class it is constructed for
  (`OneMaker`), and none when it is done (`DoneFits`): otherwise what one of them
  calls would count for the other.

`Linked` says that every class that `qinterpPrepare` has accepted has a base class
that exists, so that in a prepared program only `Object` has none. With
`FindsNearest` and `Regular` it tells which constructor a call finds (`FoundIs`):
that of the class it is meant for, if the class of the instance sees it, or none.

Under the same assumption, `ObjectsCounts` proves of `Objects`:

| theorem | states |
|---|---|
| `CountsBalance` | `Spec => []CountInv` |
| `ReferencesLive` | `Spec => []NothingDangles` |
| `GarbageIsFreed` | `Spec => []NothingLeaks` |

`CountInv` holds as long as none of the three flaws occurred that can destroy an
instance too early (`Bad`; each is a path of the code where a reference is given up
that was not counted). Neither property is inductive. `NothingDangles` says that a
count is at least the number of references, `NothingLeaks` that it is at most that;
a step that drops references needs both, since the instance that it destroys must
be one that nothing refers to, and its fields are dropped in turn. `CountInv` has
four parts:

* `Owed`: the count of a living instance is the number of references to it, and
  positive; to a destroyed one there are none, and it holds none. References are
  those from outside of the heap (`Roots`), those on a list of values that are still
  to be cleared, and those in fields, but for fields in a set `P`: a variable that
  `varAssign` is about to overwrite is no reference any more.
* `Spare`: what is counted beyond that was lost where a flaw says so, and nothing
  was while there is none. This is what ties the two properties together.
* `Copied`: a frame that does not own its locals, that of a constructor called by
  `NEW` or by a host, holds the values that lie on the stack below its base. They
  are counted once, there; what the frame refers to is alive because the stack
  still has it.
* `Hosted` and `Lent`: an instance that the host uses is counted for it, or lies on
  the stack below all that methods may take, and the call that is under way is of
  that instance. Without them the host's instance need not be alive between calls.

The middle of one `varClear` is `Halfway`: `HalfwayStep` shows that one value
cleared keeps `Owed`, with the fields of an instance that is destroyed on the list,
and that `Left`, the values on the list and the fields of living instances, becomes
less. So the number of steps that the model gives it is enough, however instances
hold one another (`DropOwed`). Then there is one lemma for each thing the code does
with counted values (`RefsAccount`, `DropAccounts`, `PushAccounts`, `EnterAccounts`,
`LeaveAccounts`, `MakeAccounts`) and one for each action; `CountNext` puts them
together.

Only model-checked:

* liveness (`Terminates`, `Answered`, `EveryCallEnds`), which needs `ENABLED`;
* everything about compiled code and translated text (`NoFault`,
  `OperandsOwned`, `RunsAsWritten`, and the properties of `SqlParser`), since
  `Compiler`, `Source` and `SqlParser` are recursive over trees and texts;
* the sums of `AveragesOfLastCalls`.

## 5. Not modelled

* Floats, strings and delegates as values: their operators have no control flow
  of their own.
* Static fields (`SDEREF`) and parameters declared with `&`.
* Out-of-memory paths: every allocation is assumed to succeed.
* A `for` with an empty header part; the syntax errors of the language's parser.
* The lexer of the language, the program dump, the console, and the libraries
  for sockets, DES and HTTP: sequential text processing, printing, or wrappers of
  system calls.
* Of the SQL server: how a statement is prepared, its parameters and rows are
  converted, and the text processing of procedure headers (`sqlprocedure.c`,
  `sqlparam.c`, `sqllex.c`); compression; the lists that are only displayed. The
  model starts from a database whose tables exist; `createProcedureTable` that
  fails half way leaves a file that no later start completes. Known faults of
  this part: `requestGetItemAt` answers NULL for every index above 0
  (`request.c:350`), and the length of a VARCHAR parameter is taken from the wrong
  place (`preparedstatement.c:888`).
* `srvbrq330.c`, the output of an SQL preprocessor for one application that the
  Makefile does not build, and `sqlite3.h`, which is third-party.
* The host utilities `defs2xml.c`, `appcode.c` and `httpget.c`.

## 6. Plan

1. (done) `Variant`, `Interp`, `Compiler`, `Source`; runs `structured` and
   `machine`; theorems on the machine.
2. (done) `Users`, `StmtMgr` and `Catalog`; runs `users`, `catalog` and
   `servers`; theorems on permissions.
3. (done) `Transactions`, with its theorems, `Connection`, `SqlParser`,
   `Objects` and `Natives` and their runs.
4. (done) Proofs of `Users`, `StmtMgr`, `Connection` and `Natives`, of the step
   simulation behind `ImplementsCatalog`, of the types, the dispatch, the order of
   constructors and the reference counts of `Objects`, and of what a call does to its
   callers' operands.
5. Left to model: the conversion of parameters and rows in `preparedstatement.c`
   and the creation of the tables.

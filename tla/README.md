# A verification project for cpp_network_learning

The repository is a small C++17 network library with an HTTP server on top: a
main reactor accepts connections, sub-reactors on threads of a pool serve them
with edge-triggered epoll, and an asynchronous logger writes a log file. Its
tests are manual (`curl`, `ab`). This directory models the parts whose mistakes
such tests would hardly show: the life of a connection across two threads,
partial writes on an edge-triggered descriptor, index arithmetic, the parser's
state machine, the responses, the timers and the idle connections, the order in
which the server starts, the logger's line and its shutdown. TLC checks the
models on small instances; TLAPS proves the most important properties for all.

Paths below are relative to the repository (the `src/` of `PROJECT.json` is its
root, so `src/src/Connection.cpp` is its `src/Connection.cpp`).

## 1. Inventory

| Component | State | Operations | What is hard | What makes it correct |
|---|---|---|---|---|
| Server, Acceptor (`src/Server.cpp`, `src/Acceptor.cpp`) | `connections`: descriptor to `shared_ptr<Connection>`; the sub-reactors | accept, `newConnection`, `deleteConnection` | runs on the main thread for accepting and on loop threads for deleting; descriptors are reused | each connection is entered once, found again under its own descriptor, deleted once |
| EventLoop, epoll, channel (`src/EventLoop.cpp`, `src/epoll.cpp`, `src/channel.cpp`) | ready list, `inepoll`, `events`, `revents`, the tie, `to_do_list_` | poll, dispatch, `updateChannel`, the deferred destructor | registration on one thread races with dispatch on another; a close during a callback | no freed channel is used; what epoll watches is what the channel asked for; the to-do list is never left while the loop sleeps |
| Connection (`src/Connection.cpp`) | the two buffers, `state_`, `close_after_write_` | `recv0`, `send0`, `close0`, `connectionDestructor` | partial sends, edges, several responses in one buffer, peers that go away | bytes whole and in order, no lost edge, close after the last byte |
| HttpServer (`src/http/HttpServer.cpp`) | none of its own | `HttpOnMessage`, `OnRequest`, `ScheduleAutoClose`, `ActiveCloseConn` | one parser and one close flag for several responses in flight | nothing unasked is answered; a wish to close is carried out |
| HttpContext, HttpRequest (`src/http/`) | parser state, the request | `ParaseRequest`, the setters | the state outlives a buffer, its pointers do not; reads one past the end | whole requests parse into their parts; no exception |
| HttpResponse and the response callback (`HttpServer.cpp`, `src/http/HttpResponse.cpp`) | a response | the routes, `message` | fields never set, positions in a body that may not be there | every response has a status line; no exception |
| Buffer (`src/Buffer.cpp`) | vector, `read_index_`, `write_index_` | append, peek, retrieve | move or grow, rewind | indices inside, bytes as in a queue |
| TimeQueue, Timer (`time/`) | timers ordered by expiration, one timerfd | add, `handleRead`, repeat | one-shot timerfd, two clocks, timers added while others run | no timer is forgotten, no idle connection either |
| asyncLogger (`LogStream/asyncLogger.cpp`) | two buffers, a condition variable, `running` | append, the consumer, the destructor | lost wakeups, shutdown | no line lost, doubled or reordered; shutdown ends and writes all |
| Thread_pool, lock wrappers (`Thread_Poll/`, `lock/`) | request queue, semaphore | append, run | a worker that runs a loop never comes back; push and post, wait and pop are separate steps | every loop gets one worker and only one |
| Logger, LogStream (`LogStream/`) | a line buffer and the text of the time, per thread; the output function; `started` | `<<`, the destructor, `asyncOutputFunc` | integer extremes, a full buffer, a cached time, a plain bool tested by every thread | lines inside their buffer and with their time; one asyncLogger |
| `main` and the constructors (`HttpServer.cpp`, `src/Server.cpp`) | how far the start has got | append the loops, set the output, set the callback, listen | the workers run while main is still setting things up | nobody needs what is not set yet |
| Echo server, client, test program, addresses, thread id | - | - | - | demonstration code and stateless wrappers |

Interactions. The main thread calls the Acceptor's channel, which calls
`Server::newConnection`; that creates the Connection, enters it in the map and
registers its channel with a *sub*-reactor's epoll. From then on the
sub-reactor's thread calls the channel, the channel the Connection's callbacks,
those HttpServer, the parser and the response callback. `close0` calls
`Server::deleteConnection`, which takes the connection out of the map under a
mutex and pushes its destructor on the to-do list of the loop, which runs it
after the events of the round. Timers of a loop call back on its own thread
with a `weak_ptr`. Every thread appends to the logger.

## 2. Modules

| Module | Models | Abstract specification | Proofs |
|---|---|---|---|
| `Reactor` | Server, Acceptor, EventLoop, epoll, channel and the owners of a Connection | `ConnLifecycle` | `ReactorProofs` |
| `HttpConnection` | one Connection with HttpServer, the parser by chunks, the kernel's socket and the peer | | `HttpConnectionProofs` |
| `HttpParser` | `ParaseRequest` token by token, over one or two reads | the operator `RequestOf` | in `HttpExchangeProofs` |
| `HttpExchange` | extends `HttpParser`: the routes, the login form, the response | | `HttpExchangeProofs` |
| `Buffer` | Buffer | `ByteQueue` | `BufferProofs` |
| `TimeQueue` | TimeQueue, Timer, the timerfd | | `TimeQueueProofs` |
| `IdleClose` | extends `TimeQueue`: the connections its timers close | `TimeQueue` | in `TimeQueueProofs` |
| `AsyncLogger` | asyncLogger | | `AsyncLoggerProofs` |
| `ThreadPool` | Thread_pool and its semaphore | | `ThreadPoolProofs` |
| `LogStream` | the fixed buffer and the digits of an integer, as operators | reading the digits back | in `StartupProofs` |
| `Logger` | one thread's line, from `LOG_INFO` to the output function | | in `StartupProofs` |
| `Startup` | composes `ThreadPool` and `Logger`: main, the workers, first connections | `ThreadPool` | `StartupProofs` |

`MC*.tla` and `MC*.cfg` give the constants their values. A definition named
"Mistake (Property)" in a comment is a plausible bug in the definition that
follows it; put in its place it breaks that property. It is part of no
specification.

### Reactor

A step is what other threads cannot see the middle of: a mutex-protected
section, a system call, or one access to a field both threads use (`inepoll`).
`pc[t]` says where thread `t` is; `cur[t]` is its local `shared_ptr` (the guard
of `channel::handleEventByCallBack`, the local of `newConnection`); `victim[t]`
the `con` of `deleteConnection`. `Held(c)` lists everybody who has a
`shared_ptr` to `c`: the map, the locals and the functions of the to-do lists.
When the last one lets go (`Dropped`), *that* thread runs `~Connection`:
`FreeChannel`, then `CloseSocket`, which returns the descriptor. What a message
leads to (any answer, any part of it sent, a close or not) is nondeterministic.
Once a freed channel has been used, the C++ program may do anything: the loop
that did it goes to `undefined` and takes no further step in the model.

`ConnLifecycle` promises that a connection is opened on a free descriptor,
closed once and then reclaimed. The refinement mapping is `Status`.

### HttpConnection

`rcv`, `snd` and `got` are the socket's queues and what the peer has read,
`ready` the connection's place on epoll's ready list, which it enters by an
edge and by a registration. A chunk is what the peer sends at once: a whole
request for one of three paths, the first part of one, the rest, or garbage. A
response is a few units; unit *n* belongs to response *n*, so that order and
completeness can be told. `Parse` gives the state in which `ParaseRequest`
leaves these chunks; `HttpParser` has the detail. The mistake-prone parts are
kept as they are: the parser is reset only after a response that keeps the
connection, `close_after_write_` is overwritten by each response, the write
callback of an event runs after its read callback closed the connection, a
`send` after a RST raises SIGPIPE (`killed`).

### HttpParser

The text is a sequence of tokens, each a character or a word the machine cannot
stop inside; every branch of the `switch` is a disjunct. The NUL that `c_str()`
puts behind the buffer is there, because the loop reads it. `NextRead` is a
second call on the same context: it happens when a request was not complete
and its 400 could not be sent off at once (see `HttpConnection`).

What a request says is defined apart from the parser: `WellFormed` has the parts
of a request (GET, POST, PUT or HEAD, HTTP/1.0 or 1.1, a url, any number of parameters and headers, a body) and
which tokens each may hold, `RequestText` writes them, `RequestOf` is the request
object they should give (of two parameters or headers with one name the later,
no body after a `Content-Length` of zero). `Said` are the requests a text can be.
`InRequest` is where in such a text the parser may be, state by state: the
pointer, the start of the part, the colon, and the request as far as it goes.

### HttpExchange

It goes on where the parser ends: `OnRequest` calls `HttpResponseCallback`,
builds the message, and resets the parser when the connection is kept. The
login form is read by positions in the body, as the code does it (`find` plus
nine characters, a field that is not there counts as position -1), and a
`substr` that would start behind the end throws. A page is the name of its
file, and `Files` are those of `static_page`, in `http_parser` without an `index.htm`.
`RoutedRight` is what the program promises to requests it supports
(`Supported`), `UnsupportedRefused` what the requirements promise to all others. A response whose status nobody
set gets `Leftover`, any number. Content-Length follows from the body and is
left out.

### Buffer

`AppendMessage` is `append` with `EnsureCanAppend`: it moves the bytes to the
front when that makes room, otherwise the vector grows. `ByteQueue` is a queue
of bytes; the mapping is the bytes between the two indices. `MaxReadable` is a
bound of the model and not of the code.

### TimeQueue

An expiration is modelled as its distance ahead of the wall clock (0: due), and
the timerfd as its distance on the monotonic clock, so time is unbounded and
the state finite. In a `Tick` the monotonic clock goes on by one and the wall
clock by one or not at all. A clock that is stepped *forward* is left out: the
timerfd then fires late by the size of the step, which no property here could
bound. `RunDue` runs the callbacks of all due timers; those of this program
(`ActiveCloseConn`, `clear_log`) neither add nor remove timers.

### IdleClose

Every action is an action of `TimeQueue` with what it means for connections, or
leaves the timers alone. `idle[c]` is the wall clock's distance from
`last_active_time_`, told apart up to the first tick behind the timeout;
`weak_conn[t]` is what the timer's `weak_ptr` finds, and expires with the
object, which may be allocated again for another connection. Two pairs of
readings of the clock are kept apart, because the code reads it twice: the
timestamp and the timer's expiration (`HttpOnMessage`), and what `handleRead`
finds due and what `ActiveCloseConn` compares (`ActiveCloseConns`). `missed` is
a history variable that no action reads.

### AsyncLogger

`append` is one critical section. The consumer's two timed waits, the swap, the
write without the lock and the last drain are steps of their own, and so are
the destructor's `running = false` (outside the lock), its broadcast and the
join. A wait may end at any time, by its timeout or spuriously. `clear_log`,
which truncates the file from the main thread, is left out.

### ThreadPool

`append` pushes under the lock and posts behind it; a worker waits and pops in
the same way, and ignores what `sem_wait` returned (`Interrupted`). A request
is appended once, so that it can be followed; `accepted`, `refused` and
`finished` are histories.

### LogStream and Logger

A line is a sequence of pieces, a text (also of a bool, a double or a null
pointer) by its length and an integer by its value and the width of its type. `Digits` is the loop of `formatInteger` with
the division of C++, and `-value` wraps at that width. `Logger` are the steps
of one logging thread: putting the line together is its own affair, with its
thread's cached time; handing it over is not, because `asyncOutputFunc` tests
`started`, starts the asyncLogger and sets `started` in three steps.

### Startup

`main` is a program counter over the calls of `main`, the constructors and
`Server::start`. The requests of the pool are the loops, and they never return
(`Pool!Return` is not used). A worker serves a connection when it runs the
connection's loop and the connection has been registered; if the callback were
not set by then, the process would end (`terminated`), as it would if the
asyncLogger were started twice. The server's queue has room for 11451 loops;
the instance here has room for one, so that `append` also refuses.

## 3. Runs

| Run | Instance | What it shows |
|---|---|---|
| `reactor` | main and one loop, two connections that have to share one descriptor | no callback on a destroyed object, no mix-up of a reused descriptor, one destructor per connection, nothing left in the to-do list of a sleeping loop; a freed channel is used, and a registration lost, *only* after the race of finding 1; `DestroyInv` (the inductive invariant of the proofs); refinement of `ConnLifecycle`; a connection whose peer has gone is reclaimed |
| `reactor_use_after_free` | the same | finding 1 |
| `http_connection` | three chunks, a send queue of one unit, a response of two; FIN and RST | responses intact, no lost edge, no answer unasked, the close waits for the output, the output drains |
| `http_close`, `http_reset` | the same without RST; one chunk with RST | findings 2 and 3 |
| `http_parser` | requests to every route, whole, split in two at every token, with each token deleted or replaced by six others (15 754 inputs) | a whole request gives exactly its parts (`RequestRight`); a page that is there, a path that is not and a login get the response they should (`RoutedRight`); `COMPLETE` only after an empty line; no NUL in a result (`NothingBehindBuffer`); the reads that end the process are of three kinds (`ThrownOnlyIf`); `ExchangeInv`, the inductive invariant of the proofs |
| `http_parser_throw` | the parser alone, in one read | finding 4 |
| `http_unsupported` | whole requests to every route, every file there | finding 5 |
| `buffer` | messages of up to three bytes of two values, a vector of four with one reserved | indices inside, rewound when empty, grows only when moving is not enough, implements `ByteQueue` |
| `time_queue` | `IdleClose` with three timers, waits of 1 and 2, least delay 1, one connection and a timeout of 2 | the timerfd is never set too late; every timer runs; a repeated one goes on; an open connection has a timer that will find it idle, and an idle one is closed, unless its last timer ran in the very tick of its deadline |
| `startup` | main, two workers, two loops, room for one in the queue, two connections; integers of 8 bits with every number of digits, lines that just fit and just do not | one thread per loop, no loop left without a worker; the asyncLogger started once and the callback set in time; lines sound, integers right; a registered connection of an accepted loop is served |
| `async_logger` | five lines of one or two bytes, limit three | lines intact, no lost wakeup, shutdown complete; every line is written; the destructor ends |

Why these bounds are enough to be interesting. Two connections are what
descriptor reuse needs, and one loop is what the race needs: a connection never
leaves its loop, and loops share only the map, which is locked. They share the
one descriptor, so the second is accepted while the first, closed, may still
have a place in epoll's report or on another thread, but they are never open
together: with a second descriptor the liveness takes TLC more than twenty
minutes. The theorems of `ReactorProofs` hold for any number of descriptors and
loops. With a send
queue of one unit every response longer than that is sent in part; three
chunks are a response in flight, a split request and one more message. Two
waits give every order of `Insert`'s test. Three timers are a message's, an
earlier message's (or that of an object that is gone) and another one that
repeats; connections meet only in the timers they take from each other, and
the theorems hold for any number. Two loops and two workers are what a worker
that took the wrong loop, or none, needs.
Five lines around a limit of three pass the limit twice, with a batch being
written meanwhile. The vector of four is filled, moved and grown by messages
of three. Deadlock is not checked where the model really stops: connections
are finite, the peer's chunks and the lines are bounded, a parse ends.

Fairness. `Reactor`: weak fairness of each thread, which the scheduler gives;
none for peers. `HttpConnection`: the loop's thread, and a peer that reads what
it is sent; a peer that stops reading really does stall the connection until
the idle timer, for whose expiry no fairness is assumed. `IdleClose`: the
loop's thread, `epoll_wait` returning for a readable timerfd (level-triggered),
both clocks; peers need not send or close. `Startup`: main, except that no
client need come, and each worker; a connection is promised to be served only
when `append` took its loop. `AsyncLogger`: the consumer's thread, including that
its timed waits time out, and that a destructor that has begun goes on.

Type invariants. `Reactor`, `Buffer`, `AsyncLogger`, `TimeQueue`, `IdleClose`,
`ThreadPool`: proved, as parts of the inductive invariants, and for `Reactor`
checked with `DestroyInv`. `HttpParser`: proved and checked as a part of
`ExchangeInv`. Those of `HttpConnection` and of `Startup` are stated for the
reader; the runs that check the deeper properties would show a value out of
place, and of the logger's variables `LogInv` has proved what the lines need.

### Findings

Each is a behaviour of the code that the run's counterexample shows, against a
sentence of `requirements.md`.

1. **Use after free** (`src/epoll.cpp:32`, `NoUseAfterFree`). The main thread
   calls `epoll_ctl(ADD)` and then `setInEpoll`. A loop that handles and closes
   the connection in between finds `inepoll` false in `connectionDestructor`
   and skips `EPOLL_CTL_DEL`; the channel is freed before the descriptor is
   closed, and `epoll_wait` may still hand out its pointer.
2. **A close that is forgotten** (`src/http/HttpServer.cpp:101`,
   `CloseIsCarriedOut`). A 400 waits behind an unfinished response; the rest of
   the split request arrives, completes in the parser that was not reset, and
   its keep-alive response overwrites `close_after_write_`.
3. **SIGPIPE** (`src/channel.cpp:83`, `PeerCannotKill`). After a RST the read
   callback consumes the error and the write callback of the same event sends
   again, without MSG_NOSIGNAL.
4. **An exception in the parser** (`src/http/HttpContext.cpp:252`,
   `NothingThrown`). For a header that ends right behind its colon the value's
   string ends before it starts.
5. **What is not supported is not refused** (`src/HttpServer.cpp:36`,
   `UnsupportedRefused`). For a method that is neither GET nor POST, and for a
   POST to another path than `/login`, `HttpResponseCallback` leaves the
   response as `OnRequest` made it: empty, with a `status_code_` that nobody has
   set, on a connection that is kept. `requirements.md:44` asks for an error
   response and the close.

Other behaviour a maintainer may want to know:

- In the window of finding 1 `enAbleToWriting` calls ADD for a registered
  descriptor; the EEXIST is ignored and EPOLLOUT not watched.
  `InterestFollowsEvents` says that this is the only way to lose an interest.
- `GET /` reads `static_page/index.htm`, the repository has `index.html`: the
  answer is 200 with an empty body, where `requirements.md:42` asks for the
  content. Whether a file is there is not the program's doing, so `RoutedRight`
  speaks of the pages whose file is, and says nothing of this one.
- A login body without either field and shorter than eight characters throws
  (`ThrownOnlyIf`). A longer one without a username has as its user whatever
  stands behind its eighth character, up to the next `&`: eight characters and
  then `wlgls` log in (`NamesUser` in `RoutedRight`).
- The digits of the smallest integer of a type are not digits (`WrittenRight`).
- An idle connection whose last timer runs in the very microsecond of its
  deadline is not closed, and one that never sends anything has no timer at all
  (`OpenIsWatched`).
- `asyncOutputFunc` would start the logger twice if two threads logged first
  together; only the order in `main` prevents it (`NeverTerminates`).

## 4. Proofs

All theorems are of the form `Spec => ...`, for every value of the constants
that satisfies the module's named ASSUME, and are proved without further
assumptions. The assumptions only type the constants (how many loops, how long a
queue, what a peer may send), but for one number: `StreamAssumption` has
`kMaxNumericSize` at least as large as the width of the widest integer type, 64
(`LogStream.h:11`, and no overload of `<<` is wider), and takes an integer that
is logged to be a value of its type.
`PartsAssumption` of `HttpParser` says of the requests `RequestRight` and
`RoutedRight` speak of (`Parts`) that they are well formed: a method, a version, a path, any
number of parameters and headers made of characters that do not delimit them,
a numeral for the length, and any body (`WellFormed`). It says nothing of what may arrive (`Input`), which
is any two reads; a text that is no such request is in all the other theorems.

- `ReactorProofs`. `OwnershipInv` is inductive: its conjuncts are the types,
  that every thread keeps to its own program points (`OwnCode`), that a thread
  in a callback has a connection, that whoever holds a `shared_ptr` keeps the
  object alive (`HeldIsAlive`), that the map is keyed by the descriptor a
  connection has, that descriptors in use are distinct, that a connection being
  entered is not in the map yet and that no two threads destroy one object.
  `HandledIsAlive` alone is not inductive: that the last owner has gone can
  only be told from all owners together, and that a descriptor is free only
  from who still has it. From it follow `HandledAlive`,
  `NoDescriptorConfusion` and `ImplementsLifecycle` (every step is a step of
  `ConnLifecycle` or changes no `Status`).

  `DestroyInv` adds the way of a connection after that: between the map and the
  end of `DoToDolist` it is in one place (`OneStage`), a loop holds and closes
  its own connections only (`OwnLoop`), the phases of a loop's round leave
  nothing to one another (`Rounds`), nobody knows a connection before it is
  registered and it stays in the map until then (`Arriving`), and once its
  destructor callback has run epoll has forgotten it, unless `inepoll` was read
  too early (`Forgotten`). Each needs the ones before: that epoll has forgotten
  a connection holds only because no other loop can be about to register it
  again, and that is `OwnLoop` and `OneStage`. `QueuedOnce`, `NothingLeftToDo`,
  `OnlyStaleTouched` and `InterestKept` follow: the race of finding 1 is not one
  way among others to a freed channel, it is the only one. Number of
  connections, descriptors and loops are arbitrary.
- `BufferProofs`. `BufferInv` (types, sizes, indices, rewound when empty) is
  inductive; the lemma `Ensured` says what `EnsureCanAppend` gives, `PeekedBytes`
  what is between the indices after each operation. From them `AccessInside`,
  `Rewound`, `NeverGrowsEarly` and `ImplementsQueue`.
- `TimeQueueProofs`. `TypeOK`, `WakesInTime` and `AllHandled` (the loop waits
  only when it has handled all that was reported) are inductive together. The
  interesting case is `AddTimer` when it leaves the timerfd alone: an earlier
  timer has set it early enough.
  For the idle connections, every step of `IdleClose` is one of `TimeQueue` or
  leaves it alone (`IdleImplementsTimeQueue`), so that its theorems hold
  (`IdleTimersWake`). `OpenIsWatched` is inductive with the types alone, because
  it ties a timer's expiration to its connection's idle time: the sum of the
  two only falls below the timeout when the timer runs, and the run closes the
  connection or misses it. `NoIdleConnectionForgotten` follows for any number
  of connections and timers.
- `ThreadPoolProofs`. The inductive invariant adds to the types and the two
  properties that a worker that runs has a request (`BusyHasRequest`) and that
  what is about to be posted was accepted; counting workers
  at the lock and posts under way needs the library's theorems on cardinality,
  and the assumption that requests and workers are finitely many
  (`PoolAssumption`).
- `StartupProofs`. `ImplementsPool`: main and the workers use the pool as
  `ThreadPool` says, which gives `OneThreadPerLoop` and `EachLoopFetched`.
  `StartInv` says what is true at which point of `main`: until it has
  listened, no worker logs and no connection exists; a worker is never between
  the test of `started` and its assignment; and where main accepts, the logger
  is started and the callback set. From it `StartedOnce`.
  For the logger, `LogInv` says that the second whose text a thread keeps is
  the second that text is of, which makes every line's time its own, also when
  the clock goes back. That the line stays in its buffer is a statement about
  `LineLength`, the fold of `Appended` over any pieces, and that the digits of
  an integer are right is one about `Digits` and `NumberOf`, recursive
  functions over integers. The library's induction rules take an operator and
  cannot be used; instead a set of counterexamples has a least element
  (`LeastNat`), and a recursive function over the naturals exists because
  arbitrarily long beginnings of it do (`RecursionExists`). With these:
  `DigitsBound` (no more digits than the width in bits), `DigitsChain` (the
  quotients between the digits), `ReadsBack` (reading the digits gives the
  number, without leading zeros), `PowerNotOfFive` and `WrapFacts` (the
  smallest value is its own negation, and its last digit as the code computes
  it lies below '0'), together `Written`, for every width from 2 to 64 bits and
  every value. `PieceFits` and `LineFits` then give `LinesAreSound`, and
  `Written` gives `IntegersAreRight`.
- `HttpExchangeProofs`. What the parser's properties need is what it knows, in
  each state, of the characters right in front of it. `ParserInv` has the types
  (`IsRequest`: a request's strings, the names and values of its parameters and
  headers among them, are tokens that were read, hence no NUL),
  that the buffer is one of the two reads, that the parts' pointers are in
  order (`PairInOrder`) and which line ends are behind each of the states
  around them (`LineEndsRead`). The second read makes it interesting: the state
  survives and the pointers do not, so a line end may be recognised from its
  second half. The invariant says exactly where they may then be: a pair that
  began in the first read has its colon at the front of the second, for one
  round. `ExchangeInv` adds that the parser stops while a response is pending
  and starts anew, if at all (`StopsForAnswer`), and `ThrownOnlyIf`, which is
  inductive with the rest. `ExchangeInvariant` gives `RequestsEnd`,
  `NulStaysOut` and `ThrowsExplained`, for any set of inputs over the tokens,
  any requests and any files; `ParserInvariant` is the same for the parser
  alone.

  Whole requests need the position in the text as well. `Layout` says where each
  part of `RequestText` stands, for any number of parameters and headers: the
  texts of both are rows of strings, joined by a recursive function that exists
  by `RecursionExists` and whose members are found again by `JoinedAt`.
  `WholeIsRead`, the last part of `ExchangeInv`, says that a whole request in
  the first read is being read (`InRequest`) until it is answered. One lemma per
  kind of state carries it through a round of the loop (`StartRound` to
  `BodyRound`, together `RequestRound`): the character at the pointer is the
  one `Layout` gives, none of the tokens that would end the part too early, and
  the part that is cut is the part that was sent; `MapStep` says that adding the
  next pair to the map of the first *n* gives that of *n* + 1. Since the parser
  is never past the text's end in such a state, it only stops with the request
  (`WholeRead`), which is `WholeRequestsRead`. `AnsweredRight` follows the
  request through the routes, `MessageOf` through `message()`, and `UserNamed`
  shows that the search by positions in a login's body finds the user the form
  names: positions grow with every token (`PositionApart`), and nine more than
  that of `username` is the one behind the `=`. `RoutedRight` is then inductive
  together with `ExchangeInv` (`WholeRequestsRouted`).
- `AsyncLoggerProofs`. `LoggerInv` is inductive: besides the types and the two
  properties `LinesIntact` and `NeverSleepsWithWork` it says that the number of
  lines is the length of the log, that the consumer holds the lock at exactly
  the steps inside it, that its own buffer is empty whenever it swaps, that the
  count of bytes is zero when the current buffer is empty, that the consumer
  leaves its loop only after `running` is false, and that what was logged
  before the destructor is drained by the step that says so. From it follow
  `NoLineLost`, `NoWakeupLost` and `ShutdownComplete`.
- `HttpConnectionProofs` has several invariants, because its properties need
  little from one another. `AnswersInv`: the queues are sequences of units and
  partial writes fit the send queue; it gives `AnswersArrive`. `EdgeInv` says
  at every program point what the loop still knows: unless the connection is
  on its way out, unread input is on the ready list or about to be read, and
  unsent output is watched and, if it can be sent, on the ready list or about
  to be sent. `NoLostEdge`, which speaks of the sleeping loop only, is
  not inductive by itself; `NoEdgeLost` follows. `AskedInv` counts: the read
  callback runs only with something to read, also when the idle timer came
  first in the same round, so there is always one more chunk than answers when
  a response is made (`OnlyAskedAnswered`). `CloseInv`, with `EdgeInv`, gives
  `SentBeforeClose`. The types of this module are not proved: the parser's
  state after a buffer is a fold over its chunks, which would have to be
  unfolded as `Position` is; the properties do not need it.

Only model-checked:

- All liveness properties, which are out of the prover's reach: `OutputDrains`,
  `EveryLineWritten`, `ShutdownEnds`, `TimersRun`, `RepeatContinues`,
  `IdleClosed`, `ConnectionServed`, `ClosedPeerReclaimed`.

Every safety property of a passing run is a theorem.

## 5. Not modelled

- What a page contains, Content-Length, and the wording of log lines.
- `LogStream`'s double and `fmt` output, which are texts of some length here;
  `LOG_FATAL`, `setLevel`, `setFlushFunc` and `fileOutputFunc`, which nothing
  uses.
- The destructors of Server, pool and loops: `main`'s loop never returns.
- `clear_log`, which truncates `log.txt` on the main thread once a minute while
  the logger's consumer appends to it: what is lost is up to the file system.
- `Buffer::inputLine` and the raw pointers of `PeekAll_c` and `RetrieveAll_c`,
  which the server does not use; the echo server, the client and the test
  program (demonstrations); addresses and thread ids (wrappers).
- Memory exhaustion, exceptions from allocation, a failing `epoll_create` or
  `timerfd_create`; descriptors running out is modelled only as accept not
  happening (`FreeFds`).
- A response that takes longer than the timeout to send is cut by the idle
  close: `HttpConnection` has the close, `IdleClose` the clock, and no model
  both, because no property of the responses survives it.
- The data race on `inepoll`, a plain bool, is modelled as a read that sees the
  old or the new value, by the order of the steps.

## 6. Plan

Done, in this order: `Reactor` with its life cycle (the most important
behaviour), `Buffer`, `HttpConnection`, `AsyncLogger`, `HttpParser`,
`TimeQueue`; then `ThreadPool`, `LogStream`, `Logger` and their composition
`Startup`, `HttpExchange`, `IdleClose`; and the proofs named above, the last of
them those of the logger's lines, and of the parser with whole requests and
their answers.

What could follow: the descriptor limit of the Acceptor with its busy loop; an
abstract stream of responses that `HttpConnection` refines and a log that
`AsyncLogger` refines.

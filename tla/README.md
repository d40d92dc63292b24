# A verification project for SoftRenderer_lua

SoftRenderer_lua is a small software renderer: a Windows host program
(`kge/kge/src/main.cpp`) embeds a Lua 5.1.5 runtime (`kge/kge/src/lua/`, compiled
into the same executable) and calls Lua scripts (`lua/*.lua`) that transform
and rasterise a cube, one frame per window message. This directory holds TLA+
modules that model the parts of that program whose correctness depends on the
order of things, the TLC configurations that check them, and proofs checked by
TLAPS.

## Inventory

| Part | Source | State | Operations | Interacts with |
|---|---|---|---|---|
| Host | `main.cpp` | the Lua stack it calls scripts from, the bitmap, the window, the message queue | start-up with six early returns, message loop, `draw_pixel`, bit and color functions | runs scripts by `lua_pcall`, scripts call its C functions |
| Collector | `lgc.c`, `lgc.h` | mark bits of every object, `gcstate`, gray lists, `tmudata`, sweep position | `luaC_step`, `luaC_fullgc`, write barriers, `GCTM` | runs from every allocation, calls finalizers, which run the program again |
| Objects | `lobject.h`, `lfunc.c`, `lstring.c`, `lstate.c` | all-objects list, string table, open upvalues | constructors, `luaF_findupval`, `luaF_close`, `luaE_freethread` | read and revived by the program, freed by the sweep |
| Virtual machine, API | `lvm.c`, `lapi.c`, `ldblib.c` | stacks, registers, pseudo-indices | instructions and API functions that move references | the collector's mutator |
| Tables | `ltable.c` | array part, hash part with chains in one vector, free pointer, flags | get, set, `newkey`, `rehash`, `next`, border | weak tables are cleared by the collector |
| Calls | `ldo.c`, `lbaselib.c` | CallInfo stack, error jumps, thread status, nCcalls | call, return, protected call, resume, yield | every script call of the host |
| Compiler | `lparser.c`, `lcode.c`, `llex.c`, `lopcodes.c` | per function: registers, active variables, blocks, jump lists, constants; per text: a token read ahead | statements and expressions, code generation | called by `lua_load`; its code is checked by `ldebug.c`, run by `lvm.c` |
| Binary chunks | `ldump.c`, `lundump.c`, `lzio.c` | a stream of pieces | dump, load | `string.dump`, `lua_load` |
| Debug interface, tag methods | `ldebug.c`, `ltm.c` | the `flags` of tables | `luaG_checkcode`, names for error messages, `luaT_gettm` | the virtual machine asks for tag methods on every access |
| String, table and auxiliary library | `lstrlib.c`, `ltablib.c`, `lauxlib.c` | match state, the list being sorted, buffers on the stack | find, gmatch, gsub, `%q`, sort, insert, remove, concat | call scripts back (order functions) |
| Modules and classes | `loadlib.c`, `lua/class.lua` | `package.loaded`, class tables and caches of inherited methods | `require`, `module`, `class`, `new` | load and organise the scripts |
| Renderer | `lua/cube.lua`, `shader.lua`, `device_context.lua`, ... | matrices, shared vertices | tick, draw, drawPrimitive | called by tick, calls the rasteriser |
| Rasteriser | `lua/device.lua`, `matrix.lua`, ... | render mode | line, triangle, clear, inverse | calls `draw_pixel` |

There is one thread of control. What makes the system hard is not parallelism
but re-entrance: the collector runs between any two allocations of the program,
in increments that leave the heap half marked or half swept; finalizers run
inside collector steps and run arbitrary code; coroutines switch stacks;
errors unwind through C; the message loop interleaves the user's messages with
ticks. `PROJECT.json` lists the hazards with their lines.

What makes each part correct:

- Collector and objects: nothing the program can reach is ever freed, whatever
  the order of collector steps and writes; everything else is freed in the end;
  finalizers run once, before their userdata is freed.
- Host: start-up ends in the message loop or in an early return that reports
  what went wrong; every frame is on the window before the next one is drawn over it;
  closing the window ends the program; the stack it calls scripts from stays within its frame.
- Tables: a table is a map from keys to values whatever its layout; traversal
  with `next` visits every entry once although entries are removed on the way.
- Calls: each call returns or unwinds to the level that called it; a coroutine
  is in one of four states and only a suspended one is resumed.
- Compiler and virtual machine: a program does what its text means; its code uses
  only registers and jumps that exist; dumping and loading it changes nothing.
- Tag methods: what is remembered to be absent is absent.
- Libraries: a match is the one that the pattern stands for; a sort loses no
  element, whatever the order function does; a buffer keeps its parts in order within
  the slots a C function has.
- Modules and classes: a module's chunk runs once and require gives the same value
  again; a method that was used is not replaced behind the class's back.
- Renderer and rasteriser: a line has its end points and no gaps, and a frame holds what lies in the
  view. Neither is modelled: no line or triangle is ever drawn (see "Not modelled").

## Modules

| Module | What it is |
|---|---|
| `LuaGC` | the collector interleaved with the program: heap, marks, lists, one action per mutator operation and per collector step; properties |
| `MCLuaGC` | instances of it for TLC: model values, bounds, the view, the small program of the liveness run |
| `LuaGCDebug` | `LuaGC` with `debug.setupvalue` |
| `LuaGC_proofs` | type correctness of `LuaGC`; the invariant about finalizers, and the two properties that follow |
| `LuaGC_safety` | the memory safety of the collector and the invariants of its mark phase |
| `LuaGC_precise` | that a full collection leaves no garbage |
| `LuaMap` | what a table promises: a map, and traversals that give each entry once |
| `LuaTable` | `ltable.c`: array part, chains of nodes, rehash, `next`, length; shown to implement `LuaMap` |
| `MCLuaTable` | an instance of it with keys that collide |
| `LuaTable_proofs` | the invariant of chains and traversals, all properties of `LuaTable`, and that it implements `LuaMap` |
| `LuaCall` | `ldo.c` and the coroutine library: CallInfos, the C stack, errors, resume and yield |
| `MCLuaCall` | an instance of it, its bound on the C stack and its symmetry |
| `LuaCall_proofs` | the invariant of calls, errors and coroutines, and the six properties that follow |
| `LuaCode` | `lcode.c`: expressions to instructions, jump lists, registers |
| `LuaParser` | `lparser.c`: scopes, blocks, upvalues, statements, over syntax trees |
| `LuaCheck` | `luaG_checkcode`, symbolic execution and `getobjname` of `ldebug.c` |
| `LuaDump` | `ldump.c`, `lundump.c` and the buffered input of `lzio.c` |
| `LuaVM` | `luaV_execute` with the calls of `ldo.c` and the upvalues of `lfunc.c`, one action per instruction |
| `LuaMeaning` | what a program means by its text alone, and the properties of the five modules above |
| `MCLuaVM` | some 560 programs |
| `LuaLex` | `llex.c`, and the `%q` of string.format |
| `LuaPattern` | the matcher of `lstrlib.c` with find, gmatch and gsub |
| `LuaTabLib` | sort, insert, remove and concat of `ltablib.c`, the buffers of `lauxlib.c` |
| `LuaRequire` | require and module |
| `LuaMeta` | accesses through metatables and the cache of absent tag methods |
| `ScriptClass` | `class.lua` |
| `Library_proofs` | that the cache of `LuaMeta` is never stale, that a method a class has found is kept, and what require promises |
| `LibMeaning` | what the libraries promise, without their algorithms |
| `MCLibraries` | uses of the libraries, behaviours of metatables, classes and modules |
| `Host` | start-up, error branches, message loop, bitmap and window |
| `Host_proofs` | type correctness of `Host`, that errors of main.lua are shown and that every frame is |

### LuaGC: the collector and its mutator

State. `alloc` is the set of identities in use; an address that malloc hands
out again is an identity that becomes allocated again. `ref[o]` is the set of objects in
the fixed fields of `o` (metatable, environment, upvalues, the value of a closed
upvalue), `entry[t][k]` the content of a table, `stack[th][s]` a thread's stack,
`owner` and `level` the stack slot of an open upvalue. `color`, `cw`
(`currentwhite`), `gcstate`, `gray`, `grayagain`, `weak`, `tmudata` are the
fields of `global_State`; `unswept` is what lies beyond the sweep position,
`finalized` the FINALIZEDBIT, `full` where `luaC_fullgc` is, and `called` is
history.

Actions. One per mutator operation that allocates, moves a reference or runs a
barrier, and one per `singlestep`. `atomic()` is one singlestep; it is taken apart
into `RemarkUpvals`, `RemarkWeak`, `RemarkAgain`, `SeparateUdata` and `Flip` with
`Propagate` between them, while the mutator does not run, so that no action hides
a transitive closure. `luaC_fullgc` is `FullGC`, the sweep, `FullMark` and the
rest of a cycle, with the mutator stopped except in finalizers. A finalizer is
the program going on after `CallFinalizer` pushed its userdata.

Operands. An operation takes what a register or pseudo-index holds or what one
instruction that never runs the collector fetches into a register first
(`Readable`), so that an action is an instruction with its operands fetched.

Abstractions. Lists are sets: the order of the gray lists, of the sweep and of the
finalizers is any order, which covers the code's. Which objects a sweep step
frees does not depend on the buckets of the string table. A table's
metatable is a field; whether it makes the table weak, or gives a userdata a
finalizer, is a constant of the object (`KeyWeak`, `ValueWeak`, `Finalizable`), and
such a metatable is taken to be reachable. Coroutines nest one level deep. Prototypes are part of their
closure. When the collector steps is left open: the
debt that paces it is abstracted. `CallFinalizer` ends the full collection it
interrupts (`full` becomes "no"), so what remains of it is an ordinary cycle.
`lua_close` is not modelled.

Properties. `NoDangling` (memory safety), `TriColor`, `GrayLists` (what the
barriers keep), `OpenUpvals`, `FinalizeOnce`,
`FinalizeBeforeFree`, `FullGCPrecise` (a full collection leaves no garbage),
`GarbageFreed` and `FinalizersRun` (liveness).

### LuaTable: tables

State. `table` is the `Table`: `array` its array part, `node` the vector of nodes
with key, value, `next` and whether the key is dead, `lastfree` the free pointer.
An empty vector stands for the shared `dummynode`. `cur` is the key that a traversal passes to
`next`, `walk` whether one is under way; `map` and `seen` are history.

Actions. `Assign` is `luaH_set` with the value stored, all of `newkey`, `rehash` and `resize`
included; `GrowArray` is what a constructor does before it stores a list
(`OP_SETLIST`); `RemoveEmpty` and `ClearWeak` are what the collector does to entries;
`BeginTraversal` and `Traverse` are `lua_next`. `newkey` and `luaH_set` call each other in the C code; here
`Set` decides once whether a rehash is needed and `Put` inserts without one, which
`HoldsWhatWasAssigned` would refute if a rehash ever left too little room. A chain,
the binary search and `resize` are recursive functions over their steps (`Chain`, `Between`,
`Resize`): the nth position, the nth bracket, and the table after n entries were inserted again,
in the order of the code. The proofs argue about them step by step.

Abstractions. The hash of a key is a constant; the one of numbers is that of `hashnum` for 1.0,
2.0 and 3.0. The length search is given a small `MaxInt` so that its
overflow branch is reached. Keys that are nil or NaN and table overflow are errors
before any change.

Properties. `HoldsWhatWasAssigned` (lookup gives what was assigned), `ImplementsMap`
(`Map!Spec`, where `Map` is `LuaMap` with the history variables for its own: each entry once, and `next` never refuses the key it is at),
`LengthIsBorder`, `ArrayMostlyUsed` (what `computesizes` is for).

### LuaCall: calls, errors and coroutines

State. `native` is the C stack as a sequence of activations of `luaD_call`,
`luaV_execute`, C functions, `luaD_pcall` and `lua_resume`; the other variables are the fields of
each `lua_State` that concern calls, `errorJmp` as places on that stack.
`err` is an error on its way, so that the handler of `luaG_errormsg` and the unwinding of
`luaD_throw` are steps of their own, between which the handler runs.

Actions. `CallFromLua`, `TailCall` and `ReturnFromLua` are the instructions of `luaV_execute`;
`CallThroughC` is every `luaD_call` by metamethods, iterators, finalizers and
`lua_call`; `ProtectedCall` is `lua_pcall` by scripts or the host; `Resume` and `Yield` are the
coroutine library with `lua_resume` and `lua_yield`; `Raise`, `CallHandler` and `Throw` are errors.
`Leave` is the return through `luaD_call`, `luaD_pcall` and `resume`, which run
nothing else. What functions do between these operations is open.

Abstractions. No values: arguments, results and messages are left out. The value
stack and its reallocation are left out, as the code keeps offsets
(`savestack`) wherever it could move. Hooks are off. A resume that is refused changes nothing
and is no action.

Properties. `JumpBuffersLive` (an error never jumps into an activation that was left),
`CallsCounted` (`nCcalls` is the depth of the C stack), `CallInfosRun` (CallInfos and
activations agree), `InnermostHandler`, `StatusTruthful` (`coroutine.status`).

### The compiler and the virtual machine

`LuaCode` and `LuaParser` are functions from a `FuncState` to a `FuncState`: `code`, `k`, `freereg`,
`actvar`, `bl`, `jpc`, `ups` are the fields of that name, `e` is the `expdesc` an operation leaves,
and `ok` is false once an assertion of the code failed. The parser walks the tree that the tokens spell, in the
order in which the code reads tokens. `LuaVM` is a state machine: `Compile` is
`luaY_parser`, `DumpAndLoad` replaces the prototype by what a dump and a load make of it, and each further
action is an instruction on `stack`, `top`, `frames` (CallInfos), `closures` and `upvals`. `LuaMeaning`
interprets the same tree with environments and cells; it shares with the machine only the
values.

The machine and its properties take the pure parts as operator constants: `Compiler` (`Compiled` of `LuaParser`),
`Loader` (`Undump` of `LuaDump`) and `Interpreter` (`Meaning`); `MCLuaVM` gives them their values, as `MCLibraries`
does for `Lexer` (`TokensOf` of `LuaLex`).

Properties. `RunsAsWritten`: a program that ends has emitted what its text means, and
is rejected only if it has to be. `CodeChecked`: assertions of the compiler hold, and
`luaG_checkcode` accepts its code. `TopKept`: `L->top` is where `luaV_execute` asserts it. `NamesTruthful`:
the names of called values in messages are names of variables or fields that hold them.
`RoundTrip`: dumping and loading gives the prototype back, in pieces of any size, and a
chunk that is cut off is refused.

Abstractions. Line numbers, the limits on constants, locals and upvalues (all but the limit on
registers), `SETLIST` counts too large for an operand, table size hints, metatables and runtime errors are left out. Numbers are
integers. `for ... in` calls a C iterator.

### The libraries

`task` is one use of a library; `LibMeaning` compares the result of the algorithm with a definition.

- `LuaPattern` models the match state with its captures and the order of tries; classes are sets of
  characters. `MatchesAsDefined` compares with the preferred derivation among all ways the
  items of the pattern can match, captures included, and gsub with gmatch.
- `LuaLex` reads characters. `TokensAsWritten` spells words and the gaps between them and
  demands the words back, with their lines, wherever the parser looks ahead.
- `LuaTabLib`: `ListsKept` sorts with every strict weak order of three values, with functions that fail at any
  call, and with relations that are no orders; `BufferInOrder` bounds the slots a buffer uses.
- `LuaRequire` is a state machine over three modules and a library. `loaded` is `package.loaded`, `loading` the chunks that run,
  each called by a `require` of the one before; the others are history. `Refuse`, `Again`, `Missing` and `Enter` are the ways
  through `ll_require` to its return, its error or the call of the chunk, `Return` is what it does after that. A chunk may
  require anything, call `module` with its own name, return anything, or fail; an error leaves as many chunks as lie above the
  `pcall` that catches it. `RequiredOnce` says that a chunk runs once, and again only after it returned false, that what require
  gave it gives again, and that the mark of a module being loaded is left behind only by a chunk that did not return; `FailedForGood`
  says that no other chunk can make require run or give such a module; Scripts that write to `package.loaded`, or
  call `module` with the name of another module, can do so; they are left out.
- `LuaMeta` is a state machine over two tables that may be each other's metatables. `access` is the
  `luaV_gettable` or `luaV_settable` under way: `Gets` and `Sets` begin it, `Locate` and `Follow` are a round
  of its loop that returns or repeats, `Finish` reads or stores. `AbsentMeansAbsent` says that flags deny
  no tag method there is, and that every access passes through the tag methods there are and
  stops only where there is none.
- `ScriptClass` is a state machine over three classes. `asked` is the chain of classes that the `__index` of
  a vtbl, or `create`, has climbed (`Call`, then `AskSuper` for each superclass, then `Answer` or `Construct`); `held` is history.
  `UsedMethodKept` says that a method that an object found is the one it finds later unless its
  own class defines another.

### Host

`stage` is the place in `main()`: the steps of start-up, then the calls the loop makes,
then how it ended. `top` counts the slots of the Lua stack; `frame` numbers the frames in the
bitmap (one for each call of tick, a failing one included), `shown` is the frame on the window, `Nothing`
where it was erased, and `copied`, a history variable, the frame that `screen_update` copied last.
`queue`, `invalid`, `msg`, `quit` and `window` are the user interface: posted messages, whether the
window has a part to be painted, the message that `GetMessage` gave, `PostQuitMessage`, and the window itself.

- `TakeMessage`, `TakeQuit` and `TakePaint` are the three answers of `GetMessage`, in its order: posted
  messages, then WM_QUIT, then WM_PAINT while a part is invalid.
- `ScreenUpdate` comes before the message is handled, and blits without making the window valid.
- `Dispatch` is `WndProc`. WM_PAINT (`Paint`) erases with the brush of the class (main.cpp:215) and draws
  nothing, so the window stays blank until the `screen_update` of the next message. A
  message by which the user resizes the window has `DefWindowProc` call `WndProc` again for WM_PAINT before it returns; WM_CLOSE
  destroys the window, and WM_DESTROY posts WM_QUIT (`Destroy`).
- `CallTick` calls the global tick, whatever it is, and may leave a slot.
- `Post` and `Uncover` are the user: a message, or a part of the window uncovered, whose content may be lost.

`EveryFrameShown` says that when tick draws a frame, the one before was copied to the window, and is still
there unless the message in between erased or closed the window or a part of it was lost and waits to be
painted. A script is abstracted to its outcome. Its
call is assumed to return: a tick that never ends stops the program, and there is
no property to state about that.

## Runs

| Run | Instance and bounds | What it shows |
|---|---|---|
| `gc_tables` | registry, globals, two tables (one weak in its values), a string, one register; bounds `TablesBound` | barriers, the three gray lists, clearing of weak entries, strings that come back to life, the unbarriered `g->mt`, full collections at every point |
| `gc_finalizers` | two userdata with finalizers, a table with weak keys; `FinalBound` | order of marking, separation, clearing and finalizing; resurrection; full collections asked for by finalizers |
| `gc_threads` | main thread, one coroutine, one closure, one upvalue; `ThreadBound` | unbarriered stacks, upvalues closed in every phase, dead threads with open upvalues |
| `gc_live` | one table, one userdata, a program of six operations | garbage is freed, finalizers run |
| `gc_setupvalue` | two closures and the upvalue they share, `debug.setupvalue` | finds the missing barrier (below) |
| `gc_resurrected_entry` | a resurrected userdata in a table with weak keys | finds a live entry cleared (below) |
| `table` | keys 1, 2, 3, a string and an object, one value; arrays of up to three slots asked for | collisions, moves, rehashes, growing and shrinking arrays, dead keys, traversals |
| `calls` | host and two coroutines, `MaxCCalls` 3 and one more for handlers, CallInfo arrays from 2 to past 4, eight activations | every nesting of calls, errors, handlers, overflows, resumes and yields |
| `compiler` | conditions of a small grammar in every place a condition can stand, all ways to leave a loop whose variables a closure captured, programs for the rest of the language; 20 registers, list constructors flushed every 2 items, 48 stack slots, chunks in pieces of 1, 7 and 1000 bytes | the compiled program does what its text means |
| `libraries` | strings of up to 4 characters and 550 patterns, lists of up to 6 values, 9 texts in a buffer of 2 characters, three modules and a library, two tables, three classes | each library does what it promises |
| `host` | six messages and invalidations, two messages waiting at a time | start-up, loop, painting, shutdown |
| `host_stack` | twenty messages and invalidations | finds the stack growing past its frame |

Bounds. The hazards of the collector concern one holder, one value and one
place where the value is also stored; two mortal objects of the kinds
concerned, one register and one registry entry make each of them happen (every
mutant listed in `PROJECT.json` is caught with these instances). The bounds in
`MCLuaGC` are state constraints: they keep immortal objects (globals, the main
thread) out of places where they would only multiply states. The view hides
`grayagain` and `weak` outside the mark phase, where `markroot` resets them unread.
`SweepMax` is larger than the heap in most instances and 4 in `gc_tables`, where a
sweep is interrupted; strings are swept bucket by bucket in every instance.

For `table`, five keys fill vectors of 1, 2, 4 and 8 nodes; chains of three, colliding nodes out
of their main position and array parts that grow and shrink all occur, and one
value suffices because a dead or stale node differs from a live one by being nil.
For `calls`, two coroutines are needed for one to be normal; the limits are small enough
that each of them is met, with a handler running past the C limit.

For `compiler`, the interesting cases are combinations: two operators nested in every way, six places for the
condition, loops of every kind left in every way. `MaxStack` and `FieldsPerFlush` are smaller than the code's 250 and 50 so that
programs of a few lines meet them.
For `libraries`, `BufferSize` 2 and `Limit` 3 (`LUAL_BUFFERSIZE`, half of `LUA_MINSTACK`) make buffers
overflow and join; six elements are the fewest for which sort's partition, its halves and its
tail call all run on parts with more than three; `MaxTagLoop` 3 (100 in the code) lets chains
of two tables and their loops be told apart; `MaxDefs` 3 definitions of a method suffice for a class and its
superclass to define it before and after its use; `MaxRuns` 2 lets the chunk of a module that returned
false run again, and three modules require each other in a circle with a third that fails in between.

Fairness. `LiveSpec` is weakly fair to the collector: the program allocates on
every tick (vectors, strings), and each allocation runs `luaC_checkGC`. Nothing is
assumed of the program. `Host` is weakly fair to `main()`, one thread that the
system schedules whenever it is not waiting for a message.

## Findings

- `lua_setupvalue` (lapi.c:1082) runs the barrier on the closure it was given. The value is
  stored in an upvalue that other closures can share: if the upvalue is black
  and the closure white, the value is freed while the upvalue refers to it.
- `iscleared` (lgc.c:343) treats a userdata whose finalizer ran in an earlier cycle as one
  being finalized: once resurrected, it vanishes from the values of
  tables with weak keys at every collection.
- The message loop (main.cpp:403) leaves one stack slot per message whose tick fails or is no
  function, until a push violates the assertion in `api_incr_top`.

Observations met while modelling that contradict no statement in the repository:

- The error branch after config.lua (main.cpp:295) prints the slots above the third, and the
  message is in the first: that error is silent. The same loop is right for main.lua, only because three
  globals were left on the stack before; `MainErrorShown` is that fact.
- WM_PAINT (main.cpp:184) only erases: the frame that `screen_update` copied just before is gone, and the window stays blank
  until the next message.
- `table.sort` with a function that is no order may exchange an element with the nil behind the list (`i>u` is
  tested after the read, ltablib.c:226), or never end.
- A module whose chunk fails leaves the sentinel in `package.loaded`: require reports a loop from then
  on (loadlib.c:458). One that returns false runs again each time. One that fails after it called `module` is given as if it was
  loaded.
- `Clip` (device_context.lua:49) compares x and y with w from both sides and lets no vertex pass; behind it are a
  read of a global that nobody sets (`w`, line 62) and a method that `Device` does not have (line 119), so that only because of it
  does a tick end. The triangle code (device.lua) is never run: a branch of it looks for vertices
  in an impossible order (253) and an edge uses `xtop - xtop` (297).
- The transpose in cube.lua:47 is dropped, the second `setWVP` (52) replaces the product with the camera's
  matrices, and the second column of `matrix_mul` multiplies by `m33` where the other columns have the third
  row's own entry (matrix.lua:117). The world matrix stays the identity, so that inverting it in
  place (46) does nothing. These three lines and the ones on `Clip` come from reading; they are not modelled.
- `color_hex2rgba` (main.cpp:108) takes alpha from the bits of red and `bit_rshit` (61) shifts to the left; no script calls them.
- `check_next` of the lexer (llex.c:164) takes a zero character for a member of every set, so a number followed by
  one is malformed and not followed by a stray character; `lastline` is the line of the token read ahead when there is one (449).
- `getobjname` may name the register of a `for ... in` iterator that is no function after a stale variable.

## Proofs

For every value of the constants that satisfies `KindAssumption` and
`ConstantAssumption` (the sets of objects of the type tags are disjoint, the
distinguished objects exist):

- `TypeCorrect`: `Spec => []TypeOK`. `TypeOK` is inductive as it stands; one lemma each for
  allocation, updates and the collector, over lemmas about what marking, the
  barriers, the sweep and the operands return.
- `FinalizerInvariant`: `Spec => []FinalInv`, from which `FinalizedOnce` and `FinalizedBeforeFree`
  follow. `FinalizeOnce` is not inductive: that a finalizer is not called again depends on
  FINALIZEDBIT being set on everything in `tmudata`, and on the sweep not
  touching what waits there (`CallsCounted`); that nothing is freed before its finalizer
  depends on where dead userdata can be (`DeadIsUnswept`) and on its having
  been given to `luaC_separateudata` (`DeadIsFinalized`). Most steps do nothing to userdata
  but color it black or with the current white; `Benign` says so once, and
  the proof treats the seven that do more one by one.
- `CollectorInvariant`: `Spec => []SafeInv`, from which `NothingDangles`, `BarriersSuffice` (the
  tri-color invariant), `ListsHoldTheGray` and `OpenUpvaluesShared` follow. See below.
- `FullCollectionInvariant`: `Spec => []PreciseInv`, from which `FullCollectionPrecise` (`FullGCPrecise`)
  follows. It fixes a set that holds the roots and is closed under strong references, and says that what
  the collection marked so far is in it. A set that is closed after a step is shown to be closed before
  it: separated userdata only add to the roots, and what `Flip` clears or the sweep frees was referred to
  by nothing that stays. The latter needs a hypothesis on weak tables, since the key of an entry that
  vanishes with its weak value stays marked; `FullGCPrecise` states it.

For every number of coroutines and every limit that satisfies `CallAssumption` (the main thread
is no coroutine, `MaxCCalls` and `Reserve` are positive, 1 < `BasicCI` <= `MaxCalls`):

- `CallInvariant`: `Spec => []CallInv`, from which `CallTypes` (`TypeOK`), `JumpsLive` (`JumpBuffersLive`),
  `CallsAreCounted` (`CallsCounted`), `CallInfosAreRun` (`CallInfosRun`), `HandlersInnermost`
  (`InnermostHandler`) and `StatusIsTruthful` (`StatusTruthful`) follow. See below.

For the host:

- `HostInvariant`: `Spec => []HostInv`, from which `MainErrorIsShown` and `FramesAreShown` follow. For the first,
  the stack holds the three globals exactly when main.lua runs (`StartupStack`). `FramesAreShown` proves the action property
  `EveryFrameShown`. It needs `FrameCopied`, which says of the frame in the bitmap, from `screen_update` to tick, that it was copied
  and what can have hidden it since, and `WindowThere`, that the loop runs with a window that is open until WM_CLOSE is handled:
  without a window, `screen_update` would copy nothing.

For tables, for all keys and values and every hash function that satisfy `KeyAssumption` (there are
finitely many keys, number keys are positive integers, the kinds of keys are disjoint, nil is no key and no value):

- `TableWhole`: `Spec => []TableInv`, from which `TypeCorrect` (`TypeOK`), `KeepsAssigned`
  (`HoldsWhatWasAssigned`), `LengthCorrect` (`LengthIsBorder`), `ArrayPartMostlyUsed` (the action property
  `ArrayMostlyUsed`) and `Implements` (`ImplementsMap`, step by step: every step of the table is
  one of `LuaMap` or leaves its variables alone) follow. See below.

For the libraries:

- `MetaInvariant`: `MetaSpec => []MetaInv`, from which `AbsentIsAbsent` (`AbsentMeansAbsent`) follows, for every set
  of tables, keys and values that satisfies `MetaAssumption` (nil is no table or datum, fields are no events, `MaxTagLoop` is
  positive). Between steps `AbsentMeansAbsent` needs only the types to be inductive. The step that matters is a store into a
  table that is its own metatable: the question for its tag method records the absence of the very key
  that is stored next, so the flags have to be cleared after the question, and not only by
  `luaH_set` before it.
- `ClassInvariant`: `ClassSpec => []ClassInv`, from which `MethodKept` (`UsedMethodKept`) follows, for every set of classes and
  methods that satisfies `ClassAssumption`. `UsedMethodKept` is about two calls that may lie far apart.
  What relates them is that the method found first stays in the class's own vtbl until one is defined for that class
  (`HeldInTable`), which holds because a call fills only gaps: every class it has passed lacks the method
  (`PassedLack`).
- `RequireInvariant`: `RequireSpec => []RequireInv`, from which `OnceRequired` (`RequiredOnce`) and `FailureIsFinal`
  (`FailedForGood`) follow, for every set of modules, libraries and results that satisfies `RequireAssumption` (results are told apart from nil,
  false and the mark). `RequiredOnce` is not inductive: nothing in it says how often the chunk of a module ran whose entry
  is nil or false. `EntryTold` says what each entry tells of the runs of the chunk, and `RunningMarked` that a chunk under way
  has the mark or the table of `module`, so that its module is not entered a second time inside it.

### Why nothing dangles

`NoDangling` says that what survives (in a mark phase every allocated object, in a sweep those
that are not dead) holds the roots and is closed under references. It is lost only at `Flip`,
where everything white becomes dead at once: that nothing black or in a root refers
to something white there is the sum of all the steps of the mark phase. `SafeInv` is what they
add up to, inductive together with `TypeOK` and `FinalInv`. TLC checked it on
`gc_tables`, `gc_finalizers` and `gc_threads` before it was proved. Its parts:

- `TriColor` and `GrayLists`: a black object refers to nothing white, except userdata that wait for their
  finalizer, and every gray table, function and thread waits in exactly one list. This is what `luaC_barrierf`, `luaC_barrierback` and the places that leave a
  barrier out have to keep.
- `OpenUpvals`, `Shapes`, `Fresh`: the heap as `luaF_findupval`, `luaF_close` and the constructors
  leave it. An open upvalue reads a live thread's stack; an identity that is not in use holds
  nothing, so that what is allocated at an address again starts empty.
- `Kinds`: threads, strings and weak tables are never black, which is why no barrier is
  needed when they are written. An open upvalue is gray, never black, until it is closed.
- `MarkBasics`: while marking nothing is dead, and the main thread and the registry, to which no
  barrier is applied, are marked.
- `Stages`: what each part of `atomic()` has achieved. After `RemarkUpvals` the values of gray upvalues
  are marked, after `RemarkWeak` the running thread, the metatables in `g->mt` and what weak tables
  hold strongly, after `RemarkAgain` the stacks, after `SeparateUdata` the
  userdata to be finalized. At `Flip` these and an empty `gray` give the closure.
- `SweptWhite`: what the sweep has passed is white, so that the next mark phase starts without a black object;
  an open upvalue is passed with its thread, a userdata in `tmudata` when it is put back.

The proof has a lemma for each way an operation writes to the heap (a stack slot, a fixed field,
an entry, a new object, an upvalue that is opened or closed), first for a heap in which nothing dangles, then for the
mark phase with its barrier; every action of the program is one or two of these. The
collector's steps have a lemma each.

### Why an error finds its handler

The properties of `LuaCall` relate what a `lua_State` believes about itself to the C stack. None is inductive:
`luaD_throw` and the return through `luaD_pcall` restore `nCcalls`, the CallInfos and the
handler from what was saved long before, and `lua_resume` gives control back to a thread that has waited
since. `CallInv` says the same of all these places: `Current` of the running thread and the whole
stack, `Kept` of the saved values below each `luaD_pcall` and of the
waiting thread below each `lua_resume`, `Chained` of the jump buffers, `Settled` of the coroutines that
are not on the C stack. `Stack` is what these need of the order of the activations: each was called by one that can
call it, and those of one thread lie together above the `lua_resume` that runs it, so that
cutting the stack at a jump buffer leaves a stack of the same kind. The proof shows what pushing
one activation and cutting at any height do to `World`, the conjunction of these; every action is one or two of them.

### Why a table holds what was assigned

`luaH_get` looks for a key only in the chain of its main position, so `HoldsWhatWasAssigned` is lost
as soon as a chain is cut, and it says nothing of chains. `WellFormed` is what `newkey` keeps of them:

- `InChain` and `Rooted`: a node with a key, dead or not, is in the chain that begins at the main position of its key, and
  the node there has that main position, too. So a colliding node that is not in its main position can be moved by
  changing one link (`MoveAway`), and the new key then begins a chain of its own.
- `OneLink`: no two nodes link to the same node, so that the one link changed is the only one.
- `Ranked`: chains have no cycle, and a live node comes before the dead ones with the same key. `newkey`
  reuses a main position whose key is dead, so a key may be in its chain several times; `luaH_get` must
  meet the live node first, and a traversal that holds on to a dead key must still find its node.
- `Free`: a node without a key was never used and lies below `lastfree`. `getfreepos` never goes back up, and this
  is why it finds a free node whenever there is one.
- `Entries`: only live nodes and number keys have values, and a key of the array part is in no node.

That `resize` keeps all entries needs one argument more: nothing in the code checks that inserting them again never needs
another rehash. While entries are inserted again every node with a key has a value (`Packed`), so the nodes in use
are no more than the entries inserted before, and `Free` gives a free one for the next (`Capacity`); `rehash`
counts the entries with the new one among them (`UsedCounts`), so the new size has room for all.

The traversal needs `Walking`: the entries given are those up to the index of the key that `next` is at. Steps that
only change and clear entries keep the layout of the table (`Layout`), and so the index. `LengthIsBorder` needs no more of a
table than `WellFormed`: the searches end because a table lacks one of any more numbers than there are keys.

Existence of the recursive functions (`PowersExist`, `ChainExists`, `ResizeSteps`, `BetweenRounds`) and every argument by
their steps go by the least counterexample (`LeastNat`).

### Only model-checked

Liveness, which is out of the prover's reach; and what the compiler, the machine, patterns, the lexer, the
table library and buffers compute. Their modules declare
`RECURSIVE` operators, and nothing can be proved in such a module; the properties of the first four compare
them with reference definitions that are recursive on syntax trees, patterns and texts, which takes induction over data.

## Plan

Modelled: the collector, the message loop, tables, calls, the compiler with the virtual
machine, binary chunks, the libraries, and the modules and classes of the scripts. Proved: the safety of the collector, of
finalizers, of calls and of the host, that full collections are precise, that the cache of tag methods is never
stale, that classes keep their methods, that require loads a module once, and that tables hold what was assigned, implement the map and
have borders for lengths.
Next: the buffers in a module without recursion, so that their property can be proved, too.

## Not modelled

The math, os and io libraries wrap the C library and keep no state but file
handles, closed by the finalizers that `LuaGC` models. The stand-alone interpreter, compiler and
listing programs are not part of the host. The renderer (`cube.lua`, `shader.lua`, `device_context.lua`) and the
rasteriser (`device.lua`, `matrix.lua`) are not modelled: the camera, the projection and the triangles compute with floating point, which is
out of TLC's reach, and no pixel shows their results, since `Clip` lets no vertex pass and no tick reaches the
lines and triangles. What a tick does to the bitmap is a new frame in `Host`. Failing allocations (`lmem.c`), hooks, the search of `package.path`, dynamic libraries, `lua_close`, and
the reference lists of `luaL_ref`, which nothing in the program uses, are left out.

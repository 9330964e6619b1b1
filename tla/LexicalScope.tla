---------------------------- MODULE LexicalScope ----------------------------
(***************************************************************************)
(* What the symbol table of the compiler promises the rest of it, without  *)
(* buckets, hash chains, symbol ids or offsets: a stack of blocks, each a  *)
(* finite map from keys to declarations.  A use of a key finds the         *)
(* declaration of the innermost open block that has one, a second          *)
(* declaration of a key in one block is an error and leaves the first in   *)
(* place, and a program is accepted only when every block is closed and no *)
(* error was reported.                                                     *)
(*                                                                         *)
(* A routine's key is declared in the block that encloses the routine, but *)
(* only once its parameters are known, when the routine's own block is     *)
(* already open: DeclareRoutine binds one level out.                       *)
(***************************************************************************)
EXTENDS Naturals, Sequences, FiniteSetsExt

CONSTANTS
  Key,    \* the keys a declaration may have
  Decl    \* the identities of declarations

VARIABLES
  env,    \* the open blocks, outermost first: a map from keys to Decl each
  owner,  \* of each open block, the declaration of its routine; 0 if none
  title,  \* of each open block, the key its routine goes by in it
  errs,   \* whether an error was reported
  asked,  \* the key of the last declaration or use
  found,  \* the declaration the last use found; 0 if the last step was no use
  mode    \* "analysing", then "accepted", "rejected" or, if the last use found
          \* no declaration, "unknown"

vars == <<env, owner, title, errs, asked, found, mode>>

\* The declaration of k that is visible from the innermost block; 0 if none.
Visible(k) ==
  LET blocks == {i \in DOMAIN env : k \in DOMAIN env[i]}
  IN  IF blocks = {} THEN 0 ELSE env[Max(blocks)][k]

\* The map m with k bound to d.
Bind(m, k, d) == [x \in DOMAIN m \cup {k} |-> IF x = k THEN d ELSE m[x]]

Init ==
  /\ env = <<>> /\ owner = <<>> /\ title = <<>>
  /\ errs = FALSE
  /\ asked \in Key /\ found = 0
  /\ mode = "analysing"

\* The program's own block opens, its entry point the first key in it.
EnterProgram(k, d) ==
  /\ mode = "analysing" /\ env = <<>>
  /\ env' = <<Bind(<<>>, k, d)>>
  /\ owner' = <<0>> /\ title' = <<k>>
  /\ found' = 0
  /\ UNCHANGED <<errs, asked, mode>>

EnterRoutine(k) ==
  /\ mode = "analysing" /\ env # <<>>
  /\ asked' = k /\ found' = 0
  /\ env' = Append(env, <<>>)
  /\ owner' = Append(owner, 0) /\ title' = Append(title, k)
  /\ UNCHANGED <<errs, mode>>

\* Level is the innermost block for constants, variables and parameters.
BindAt(level, k, d) ==
  IF k \in DOMAIN env[level]
  THEN errs' = TRUE /\ UNCHANGED env
  ELSE env' = [env EXCEPT ![level] = Bind(@, k, d)] /\ UNCHANGED errs

Declare(k, d) ==
  /\ mode = "analysing" /\ env # <<>>
  /\ asked' = k /\ found' = 0
  /\ BindAt(Len(env), k, d)
  /\ UNCHANGED <<owner, title, mode>>

DeclareRoutine(k, d) ==
  /\ mode = "analysing" /\ Len(env) > 1
  /\ owner[Len(env)] = 0
  /\ asked' = k /\ found' = 0
  /\ BindAt(Len(env) - 1, k, d)
  /\ owner' = [owner EXCEPT ![Len(env)] = env'[Len(env) - 1][k]]
  /\ UNCHANGED <<title, mode>>

\* A use of a key finds its visible declaration, or ends the compiler if
\* there is none.
Use(k) ==
  /\ mode = "analysing" /\ env # <<>>
  /\ asked' = k /\ found' = Visible(k)
  /\ IF Visible(k) # 0
     THEN UNCHANGED <<errs, mode>>
     ELSE errs' = TRUE /\ mode' = "unknown"
  /\ UNCHANGED <<env, owner, title>>

\* Inside a routine its name, as the target of an assignment, is its result.
UseOwner ==
  /\ mode = "analysing" /\ env # <<>>
  /\ owner[Len(env)] # 0
  /\ asked' = title[Len(env)] /\ found' = owner[Len(env)]
  /\ UNCHANGED <<env, owner, title, errs, mode>>

LeaveBlock ==
  /\ env' = SubSeq(env, 1, Len(env) - 1)
  /\ owner' = SubSeq(owner, 1, Len(owner) - 1)
  /\ title' = SubSeq(title, 1, Len(title) - 1)
  /\ found' = 0
  /\ UNCHANGED <<errs, asked>>

LeaveRoutine ==
  /\ mode = "analysing" /\ Len(env) > 1
  /\ LeaveBlock
  /\ UNCHANGED mode

\* The program's block closes, and with it the analysis.
LeaveProgram ==
  /\ mode = "analysing" /\ Len(env) = 1
  /\ LeaveBlock
  /\ mode' = IF errs THEN "rejected" ELSE "accepted"

\* Any other error that ends the compiler at once, in this phase or a later
\* one.  It may be about a name, but not about one that is not declared.
Abort ==
  /\ mode \in {"analysing", "accepted"}
  /\ errs' = TRUE
  /\ mode' = "rejected"
  /\ found' \in {0, found}
  /\ \/ UNCHANGED asked
     \/ \E k \in Key : asked' = k /\ Visible(k) # 0
  /\ UNCHANGED <<env, owner, title>>

Next ==
  \/ \E k \in Key :
       \/ Use(k) \/ EnterRoutine(k)
       \/ \E d \in Decl : EnterProgram(k, d) \/ Declare(k, d) \/ DeclareRoutine(k, d)
  \/ UseOwner \/ LeaveRoutine \/ LeaveProgram \/ Abort

Spec == Init /\ [][Next]_vars
=============================================================================

---------------------------- MODULE TargetMemory ----------------------------
(***************************************************************************)
(* What parallel mode promises about the target, without pins: a memory    *)
(* that requests of the host read and write.  A request runs its commands  *)
(* once, a write before each word it takes from the host; a read returns   *)
(* what the memory holds, from its address on; a request ends when all     *)
(* its words are transferred.  Nothing else ever changes the memory.       *)
(***************************************************************************)
EXTENDS Naturals, Sequences

CONSTANTS
    Requests,  \* the requests: action, addr, count, commands
    Word,      \* what an address holds
    Cells,     \* the addresses the lines can show
    Cell(_),   \* the one they show for an address of the host
    WordSize   \* the bytes of a word

VARIABLES
    memory,
    open,      \* whether a request is being served
    request,   \* the last one
    due,       \* the stores to be made before anything else
    answers,   \* the words read for it
    taken      \* how many words it has taken from the host

Init ==
    /\ memory = [c \in Cells |-> {}]
    /\ open = FALSE /\ request \in Requests
    /\ due = <<>> /\ answers = <<>> /\ taken = 0

Begin ==
    /\ ~open /\ open' = TRUE
    /\ request' \in Requests
    /\ due' = IF request'.action = "WRITE" THEN <<>> ELSE request'.commands
    /\ answers' = <<>> /\ taken' = 0
    /\ UNCHANGED memory

Store ==
    /\ due # <<>>
    /\ memory' = [memory EXCEPT ![Cell(Head(due).addr)] = Head(due).word]
    /\ due' = Tail(due)
    /\ UNCHANGED <<open, request, answers, taken>>

Left(words) == words * WordSize < request.count

Fetch ==
    /\ open /\ due = <<>> /\ request.action = "READ" /\ Left(Len(answers))
    /\ answers' = Append(answers, memory[Cell(request.addr + Len(answers))])
    /\ UNCHANGED <<memory, open, request, due, taken>>

Take ==
    /\ open /\ due = <<>> /\ request.action = "WRITE" /\ Left(taken)
    /\ \E w \in Word :
         due' = Append(request.commands, [addr |-> request.addr + taken, word |-> w])
    /\ taken' = taken + 1
    /\ UNCHANGED <<memory, open, request, answers>>

End ==
    /\ open /\ due = <<>> /\ open' = FALSE
    /\ request.action = "READ" => ~Left(Len(answers))
    /\ request.action = "WRITE" => ~Left(taken)
    /\ UNCHANGED <<memory, request, due, answers, taken>>

Next == Begin \/ Store \/ Fetch \/ Take \/ End

Spec == Init /\ [][Next]_<<memory, open, request, due, answers, taken>>
=============================================================================

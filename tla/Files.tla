------------------------------- MODULE Files --------------------------------
(***************************************************************************)
(* What a file may hold besides all of what was meant for it, and what the *)
(* generators do about a write that fails.                                 *)
(***************************************************************************)
Absent == <<"absent">>
Short  == <<>>

\* The C++ generator looks at no write, the Rust one panics unless it is the
\* last buffer, which is written when it is dropped, and the Zig one fails, for
\* the last flush too.
CppOnWriteError  == {"unnoticed"}
RustOnWriteError == {"unnoticed", "exit"}
ZigOnWriteError  == {"exit"}
OnWriteError == [cpp |-> CppOnWriteError, rust |-> RustOnWriteError, zig |-> ZigOnWriteError]
=============================================================================

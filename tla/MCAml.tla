------------------------------- MODULE MCAml --------------------------------
(***************************************************************************)
(* Tables for Aml: nested and neighbouring scopes, every form of a path,   *)
(* lengths that are wrong, and different bytes behind the table.           *)
(***************************************************************************)
EXTENDS Aml

A == <<65, 95, 95, 95>>     \* the segment A___
B == <<66, 66, 95, 95>>     \* the segment BB__
Nothing == <<95, 95, 95, 95>>

Root == <<92, 0>>
Dual(x, y) == <<46>> \o x \o y
Multi(x, y, z) == <<47, 3>> \o x \o y \o z

\* A scope with a length in one byte, or in two.
Scope(path, body) == <<16, 1 + Len(path) + Len(body)>> \o path \o body
Scope2(path, body) ==
    LET length == 2 + Len(path) + Len(body)
    IN  <<16, 64 + (length % 16), length \div 16>> \o path \o body

\* Scopes with a length that is too short, too long, or 0.
Short(path, body) == <<16, Len(path)>> \o path \o body
Long(path, body) == <<16, 5 + Len(path) + Len(body)>> \o path \o body
Zero(path) == <<16, 0>> \o path

Data == {
    <<8>>,                                              \* a term that is no scope
    Scope(A, <<>>) \o Scope(B, <<>>),                   \* neighbours
    Scope2(Root, Scope(A, <<>>)),                       \* nested
    Scope(<<0>>, Scope(<<0>>, <<>>)),                   \* scopes that are found again
    Scope(Nothing, Scope(B, <<>>)),
    Scope(Dual(A, B), <<>>),                            \* paths with dots
    Scope(Multi(B, A, B), Scope(A, <<>>)),
    Scope(<<94>> \o A, Scope(<<33>>, <<>>)),            \* a character that starts no name
    Short(A, Scope(B, <<>>)), Long(A, Scope(B, <<>>)), Zero(A)}

\* A table with nothing of use behind it, a table with a scope behind it, and
\* one that is shorter than its header.
MCImages ==
    {[bytes |-> d, m_length |-> HeaderSize + Len(d)] : d \in Data}
        \cup {[bytes |-> Scope(A, Scope(B, <<>>)), m_length |-> HeaderSize + n] :
                  n \in {-1, 0, 6}}
=============================================================================

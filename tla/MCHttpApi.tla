------------------------------ MODULE MCHttpApi ------------------------------
EXTENDS HttpApi, TLC

Valid ==
  [isJson |-> TRUE, syntax |-> "object", name |-> <<"n">>, payload |-> <<"p">>,
   maxAttempts |-> 2, delayMs |-> 1, retryBackoffMs |-> Absent, priority |-> 1]

\* Every integer of the width and one beyond it, and what is no integer.
MCValues == (-(IntMax + 1) .. 2 * IntMax + 2) \cup {Absent, Other}

\* One valid body, and every body that differs from it in one respect.
MCBodies ==
  {Valid}
  \cup {[Valid EXCEPT !.isJson = FALSE]}
  \cup {[Valid EXCEPT !.syntax = s] : s \in {"malformed", "nonUTF8", "array"}}
  \cup {[Valid EXCEPT !.name = t] : t \in {Absent, Other, <<>>}}
  \cup {[Valid EXCEPT !.payload = t] : t \in {Absent, Other, <<>>, <<"p", NUL, "q">>}}
  \cup {[Valid EXCEPT ![f] = v] : f \in Fields, v \in MCValues}

MCSymmetry == Permutations(RequestThreads)
=============================================================================

------------------------------ MODULE MCStream ------------------------------
(* One dial of every handler by this build, one whose request fills its     *)
(* length fields and one that overflows them, one by another version and    *)
(* one of a longer identity; payload bytes differ from every frame byte.    *)
EXTENDS Stream

Plain == [service |-> <<101>>, capability |-> <<>>, membership |-> <<>>]
Full  == [service |-> <<101, 102>>, capability |-> <<<<103, 104>>>>,
          membership |-> <<<<105>>>>]
Long  == [Plain EXCEPT !.capability = <<<<103, 104, 105>>>>]

MCDetail      == <<120>>
MCServiceSays == <<211, 212>>

Call(handler, magic, request, client) ==
  [handler |-> handler, magic |-> magic, request |-> request, client |-> client]

MCDials ==
  {Call(h, Magic, Plain, <<201, 202>>) : h \in {"forward", "echo", "source"}}
  \cup {Call("typed", Magic, Plain, FrameOf(<<150>>) \o <<201, 202>>),
        Call("typed", Magic, Plain, <<7, 150, 201>>),
        Call("forward", Magic, Full, <<201>>),
        Call("forward", Magic, Long, <<201>>),
        Call("forward", <<84, 66, 48, 53>>, Plain, <<201>>),
        Call("forward", <<84, 66, 72, 49>>, Plain, <<201>>)}
=============================================================================

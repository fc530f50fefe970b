------------------------------ MODULE MCPlugin ------------------------------
EXTENDS Plugin

MCDefault == [format |-> "pcm16", frames |-> 512, port |-> 1, latency |-> 120]
\* Packets of 128 frames have no entry in the box.
MCProjects ==
    [settings : {[format |-> "pcm24", frames |-> 256, port |-> 2, latency |-> 300],
                 [format |-> "pcm16", frames |-> 128, port |-> 1, latency |-> 120]},
     address : {"a"}, streaming : BOOLEAN]
MCNetworks == {<<"b">>, <<"b", "a">>}
=============================================================================

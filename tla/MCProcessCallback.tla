-------------------------- MODULE MCProcessCallback --------------------------
(* The nodes of a ProcessCallback instance: one without inputs and with    *)
(* two outputs, two whose buses differ in channels and number, both ways,  *)
(* one that may get a null input, one in place, one that resamples.        *)
EXTENDS ProcessCallback

Generator   == [ins |-> <<>>, outs |-> <<1, 2>>, flags |-> {}]
Mixer       == [ins |-> <<2, 1>>, outs |-> <<1, 2, 1>>, flags |-> {}]
Combiner    == [ins |-> <<1, 1>>, outs |-> <<2>>, flags |-> {}]
Effect      == [ins |-> <<2, 1>>, outs |-> <<2, 1>>, flags |-> {"allow_null"}]
Passthrough == [ins |-> <<2>>, outs |-> <<2>>, flags |-> {"passthrough"}]
Resampler   == [ins |-> <<1>>, outs |-> <<1>>, flags |-> {"different_rates"}]

MCNode == {Generator, Mixer, Combiner, Effect, Passthrough, Resampler}
MCGenerator == {Generator}
==============================================================================

-------------------------- MODULE MCOutputStreams --------------------------
(* Nothing, one frame, two of any sizes and streams, and a few more.       *)
EXTENDS OutputStreams

To(stream, size) == [to |-> stream, size |-> size]
Data(n, stream) == [i \in 1..n |-> [part |-> "data", to |-> stream, size |-> 0]]
Units(f) == <<[part |-> "head", to |-> f.to, size |-> 0], [part |-> "size", to |-> f.to, size |-> f.size]>>
              \o Data(f.size, f.to)
MCFrames == [to : {"out", "err"}, size : 0..2]
MCOutputs ==
  {<<>>, <<To("err", 4)>>, <<To("err", 1), To("out", 2), To("err", 1)>>}
    \cup {<<f>> : f \in MCFrames} \cup (MCFrames \X MCFrames)
MCFramed == {FlattenSeq([i \in DOMAIN o |-> Units(o[i])]) : o \in MCOutputs}
MCPlain == {Data(n, "out") : n \in 0..4}

=============================================================================

--------------------------- MODULE MCProviderTurns ---------------------------
\* Two tools, called in one message of the assistant, with text and thinking
\* between the calls, their results, one of them blank, in a message of the
\* user for which the stream has no uuid, and the result of the turn; two
\* prompts, of which one is a question.
EXTENDS ProviderTurns

Block(type, tool, error, text) ==
    [type |-> type, tool |-> tool, error |-> error, text |-> text]
Text(line) == Block("text", "none", FALSE, <<line>>)
Blank == Block("text", "none", FALSE, <<>>)
Thinking == Block("thinking", "none", FALSE, <<"thinking">>)
Call(tool) == Block("tool_use", tool, FALSE, <<tool>>)
Message(type, uuid, streamed, blocks) ==
    [type |-> type, uuid |-> uuid, streamed |-> streamed, blocks |-> blocks]

MCMessages == {
    Message("assistant", "m1", "m1",
            <<Call("A"), Text("first"), Text("second"), Thinking, Call("B"),
              Blank>>),
    Message("user", "m2", "s2",
            <<Block("tool_result", "B", FALSE, <<"done">>),
              Block("tool_result", "A", TRUE, <<>>), Text("third")>>),
    Message("result", "m3", "m3", <<>>)}
===============================================================================

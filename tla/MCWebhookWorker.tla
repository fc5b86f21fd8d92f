--------------------------- MODULE MCWebhookWorker ---------------------------
(***************************************************************************)
(* Small instances of WebhookWorker for TLC.                               *)
(***************************************************************************)
EXTENDS WebhookWorker, TLC

MCDelays == <<1>>

\* All deliveries go to one endpoint.  The specification treats them alike, so it
\* is enough to follow the history of one of them.
MCEndpointOf == [d \in Deliveries |-> "e1"]
MCWatched == {CHOOSE d \in Deliveries : TRUE}

\* A public and an internal address, as a literal, behind a name, and mixed.
Public == <<93, 184, 216, 34>>
LinkLocal == <<169, 254, 169, 254>>
MCHosts == {Literal(Public), Literal(LinkLocal), Name, ConventionName}
MCAnswers == {<<>>} \cup {<<a>> : a \in {Public, LinkLocal}}
             \cup {<<a, b>> : a, b \in {Public, LinkLocal}}

\* The addresses on and beside the ends of every blocked range.
V4Samples ==
    {0, 1, 9, 10, 11, 99, 100, 101, 126, 127, 128, 168, 169, 170, 171, 172, 173, 191, 192, 193, 255}
    \X {0, 15, 16, 31, 32, 63, 64, 127, 128, 167, 168, 169, 253, 254, 255} \X {0, 255} \X {0, 255}
V6Samples ==
    {Repeated(a, b) : a \in {0, 1, 64511, 64512, 65023, 65024, 65151, 65152, 65215, 65216, 65535},
                      b \in {0, 65535}}
    \cup {<<0, 0, 0, 0, 0, a, b, c>> : a \in {0, 65534, 65535}, c \in {0, 1, 2, 65535},
             b \in {0, 1, 255, 256, 2559, 2560, 2815, 2816, 25663, 25664, 25727, 25728, 32511, 32512,
                    32767, 32768, 43517, 43518, 43519, 44047, 44048, 44063, 44064, 49319, 49320, 49321}}
MCSamples == V4Samples \cup V6Samples

=============================================================================

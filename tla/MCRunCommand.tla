----------------------------- MODULE MCRunCommand -----------------------------
(* The gateway with everything up, with overlapping invocations; the same one *)
(* after the other, with pids inherited; the gateway from scratch; browser    *)
(* sessions; and the Control Panel.                                           *)
EXTENDS RunCommand

Up(kind, of) == [kind |-> kind, of |-> of]
Panel == Up("ui", "ui")
ChannelBridge == Up("bridge", "bridge")
Gateway == Up("gateway", "gateway")
Session0(r) == Up("web", r)

GatewayLines == {<<"openclaw", "gateway">>, <<"openclaw", "gateway", "stop">>,
                 <<"openclaw", "gateway", "restart">>}

Scene(r, lines, running, births, active, arrivals, mortal) ==
    [runner |-> r, lines |-> lines, running |-> running, births |-> births,
     active |-> active, arrivals |-> arrivals, mortal |-> mortal]

MCScenes == {
    Scene("openclaw", GatewayLines, <<Panel, ChannelBridge, Gateway>>, 5, 2, {}, {}),
    Scene("openclaw", {<<"openclaw", "gateway">>}, <<Panel, ChannelBridge>>, 5, 2, {}, {}),
    Scene("openclaw", GatewayLines, <<Panel, ChannelBridge, Gateway>>, 5, 1, {"other"}, {"gateway", "cli"}),
    Scene("openclaw", GatewayLines, <<Panel>>, 5, 1, {}, {"bridge", "gateway launcher", "cli"}),
    Scene("openclaw", {<<"openclaw", "gateway", "status">>, <<"openclaw", "gateway", "--help">>,
                       <<"openclaw", "agent">>, <<"bin/openclaw", "tui">>},
          <<>>, 4, 1, {}, {}),
    Scene("claude", {<<"stop", "ui">>, <<"claude", "-p">>, <<"bin/claude", "-p">>},
          <<Panel>>, 2, 1, {"ui"}, {"ui"}),
    Scene("claude", {<<"claude", "remote-control">>, <<"claude", "remote-control", "stop">>,
                     <<"claude", "remote-control", "status">>, <<"stop", "claude">>},
          <<Panel, Session0("claude")>>, 4, 2, {}, {"web", "cli"}),
    Scene("opencode", {<<"opencode", "web", "--port">>, <<"opencode", "web", "restart">>,
                       <<"opencode", "run">>, <<"opencode">>, <<"bin/opencode", "serve">>},
          <<Panel>>, 4, 1, {"other"}, {})
}
=============================================================================

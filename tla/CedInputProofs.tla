--------------------------- MODULE CedInputProofs ---------------------------
(***************************************************************************)
(* Proofs about CedInput for every keyboard, every moment a signal or a    *)
(* hangup may come and every number of them.                               *)
(***************************************************************************)
EXTENDS CedInput, SequenceTheorems, TLAPS

-----------------------------------------------------------------------------
(* Types                                                                   *)

\* What read_key can return: a character, or the name of a key.
Named ==
    {"ESC", "NONE", "INS", "DEL", "UP", "DOWN", "LEFT", "RIGHT", "HOME", "END", "PGUP", "PGDN"}
Names == Bytes \cup Named
Pressable == {s.key : s \in Strokes}

InputType ==
    /\ TypeOK
    /\ typed \in Seq(Pressable) /\ keys \in Seq(Names)
    /\ queue \in Seq(Bytes) /\ wire \in Seq(Bytes)
    /\ signals \in Nat
    /\ at = "csi" => guard < SeqMax

LEMMA StrokeType ==
    ASSUME NEW s \in Strokes
    PROVE  /\ s.key \in Pressable /\ s.bytes \in Seq(Bytes) /\ Len(s.bytes) \in Nat \ {0}
           /\ s.bytes[1] \in Names
<1>1. s.key \in Pressable /\ s.bytes \in Seq(Bytes) /\ s.bytes # <<>>
    BY InputAssumption DEF Pressable
<1>2. Len(s.bytes) \in Nat \ {0}
    BY <1>1, EmptySeq
<1>3. s.bytes[1] \in Bytes
    BY <1>1, <1>2, ElementOfSeq
<1> QED
    BY <1>1, <1>2, <1>3 DEF Names

LEMMA LetterType == \A b : LetterKey(b) \in Names
<1> SUFFICES ASSUME NEW b \in DOMAIN Letter PROVE Letter[b] \in Named
    BY DEF LetterKey, Names, Named
<1>1. b \in {"A", "B", "C", "D", "H", "F"}
    BY DEF Letter
<1>2. CASE b = "A"  BY <1>2 DEF Letter, Named
<1>3. CASE b = "B"  BY <1>3 DEF Letter, Named
<1>4. CASE b = "C"  BY <1>4 DEF Letter, Named
<1>5. CASE b = "D"  BY <1>5 DEF Letter, Named
<1>6. CASE b = "H"  BY <1>6 DEF Letter, Named
<1>7. CASE b = "F"  BY <1>7 DEF Letter, Named
<1> QED
    BY <1>1, <1>2, <1>3, <1>4, <1>5, <1>6, <1>7

LEMMA TildeType == \A n : Tilde(n) \in Names
    BY DEF Tilde, Names, Named

LEMMA FinalType == \A b, n : FinalKey(b, n) \in Names
    BY LetterType, TildeType DEF FinalKey

LEMMA Limits == IdleMax \in Nat /\ SeqMax \in Nat \ {0} /\ MaxStrokes \in Nat
    BY InputAssumption

LEMMA NextNumber == \A v, w \in Nat : 10 * v + w \in Nat
    OBVIOUS

LEMMA NextGuard == \A g \in 0 .. SeqMax : g < SeqMax => g + 1 \in 0 .. SeqMax
    BY Limits

LEMMA DigitType == \A d \in DOMAIN Digit : Digit[d] \in Nat
<1> SUFFICES ASSUME NEW n \in 1 .. 10 PROVE Digit[Digits[n]] \in Nat
    BY DEF Digit
<1> DEFINE place(d) == CHOOSE m \in 1 .. 10 : Digits[m] = d
<1>1. place(Digits[n]) \in 1 .. 10
    OBVIOUS
<1>2. Digit[Digits[n]] = place(Digits[n]) - 1
    BY DEF Digit
<1> QED
    BY <1>1, <1>2

\* What reading one byte does to the console's queue and the counters.
LEMMA ByteType ==
    ASSUME InputType, NEW b, ByteRead(b)
    PROVE  queue' \in Seq(Bytes) /\ idle' \in 0 .. IdleMax + 1 /\ misled' = misled
<1>1. queue \in Seq(Bytes) /\ idle \in 0 .. IdleMax + 1
    BY DEF InputType, TypeOK
<1>2. CASE UNCHANGED <<queue, idle, misled>>
    BY <1>1, <1>2
<1>3. CASE queue # <<>> /\ queue' = Tail(queue) /\ idle' = 0 /\ misled' = misled
    <2>1. queue' \in Seq(Bytes)
        BY <1>1, <1>3, HeadTailProperties
    <2> QED
        BY <1>3, <2>1, InputAssumption
<1> QED
    BY <1>2, <1>3 DEF ByteRead

LEMMA NothingType ==
    ASSUME InputType, IntrRead \/ EofRead
    PROVE  /\ queue' \in Seq(Bytes) /\ idle' \in 0 .. IdleMax + 1 /\ woken' = FALSE
           /\ misled' \in BOOLEAN
<1>1. queue' \in Seq(Bytes) /\ idle' \in 0 .. IdleMax + 1 /\ woken' = FALSE
    BY InputAssumption DEF IntrRead, EofRead, InputType, TypeOK
<1>2. misled \in BOOLEAN /\ gone \in BOOLEAN
    BY DEF InputType, TypeOK
<1>3. misled' = misled \/ misled' = (misled \/ ~ gone)
    BY DEF IntrRead, EofRead
<1>4. misled' \in BOOLEAN
    BY <1>2, <1>3
<1> QED
    BY <1>1, <1>4

LEMMA ReturnType ==
    ASSUME InputType, NEW key \in Names, Return(key)
    PROVE  /\ keys' \in Seq(Names)
           /\ at' = "top" /\ guard' = guard /\ param' = param
<1>1. Append(keys, key) \in Seq(Names) /\ keys \in Seq(Names)
    BY AppendProperties DEF InputType
<1>2. keys' = Append(keys, key)
    BY DEF Return
<1> QED
    BY <1>1, <1>2 DEF Return

LEMMA NamedKeys == "ESC" \in Names /\ "NONE" \in Names
    BY DEF Names, Named

LEMMA TypeStep == ASSUME InputType, [Next]_vars PROVE InputType'
<1> USE Limits
<1>1. CASE CheckSignal
    BY <1>1 DEF CheckSignal, console, InputType, TypeOK
<1>2. ASSUME UNCHANGED console,
             queue' \in Seq(Bytes), idle' \in 0 .. IdleMax + 1,
             woken' \in BOOLEAN, got_int' \in BOOLEAN, misled' \in BOOLEAN, keys' \in Seq(Names),
             param' \in Nat, guard' \in 0 .. SeqMax,
             at' \in {"top", "read", "esc", "csi", "ss3", "over"},
             at' = "csi" => guard' < SeqMax
      PROVE  InputType'
    BY <1>2 DEF console, InputType, TypeOK
<1>3. CASE FirstByte
    <2>1. ASSUME ByteRead(ESC), Wait("esc"), UNCHANGED <<got_int, woken>> PROVE InputType'
        BY <1>2, <1>3, <2>1, ByteType DEF FirstByte, Wait, InputType, TypeOK
    <2>2. ASSUME NEW b \in Bytes, ByteRead(b), Return(b), UNCHANGED <<got_int, woken>>
          PROVE  InputType'
        <3>1. b \in Names
            BY DEF Names
        <3>2. /\ keys' \in Seq(Names) /\ at' = "top" /\ guard' = guard /\ param' = param
              /\ queue' \in Seq(Bytes) /\ idle' \in 0 .. IdleMax + 1 /\ misled' = misled
            BY <2>2, <3>1, ReturnType, ByteType
        <3> QED
            BY <1>2, <1>3, <2>2, <3>2 DEF FirstByte, InputType, TypeOK
    <2>3. ASSUME IntrRead, got_int' = FALSE, Wait("top") PROVE InputType'
        BY <1>2, <1>3, <2>3, NothingType DEF FirstByte, Wait, InputType, TypeOK
    <2>4. ASSUME EofRead, at' = "over", UNCHANGED <<got_int, param, guard, keys>>
          PROVE  InputType'
        BY <1>2, <1>3, <2>4, NothingType DEF FirstByte, InputType, TypeOK
    <2> QED
        BY <1>3, <2>1, <2>2, <2>3, <2>4 DEF FirstByte
<1>4. ASSUME UNCHANGED <<console, got_int>>, ReadOn PROVE InputType'
    BY <1>2, <1>4, NothingType DEF ReadOn, InputType, TypeOK
<1>5. ASSUME UNCHANGED <<console, got_int>>, EofRead, NEW key \in Names, Return(key)
      PROVE  InputType'
    <2>1. keys' \in Seq(Names) /\ at' = "top" /\ guard' = guard /\ param' = param
        BY <1>5, ReturnType
    <2> QED
        BY <1>2, <1>5, <2>1, NothingType DEF InputType, TypeOK
<1>6. ASSUME UNCHANGED <<console, got_int>>, UNCHANGED woken, NEW b, ByteRead(b),
             NEW key \in Names, Return(key)
      PROVE  InputType'
    <2>1. keys' \in Seq(Names) /\ at' = "top" /\ guard' = guard /\ param' = param
        BY <1>6, ReturnType
    <2> QED
        BY <1>2, <1>6, <2>1, ByteType DEF InputType, TypeOK
<1>7. CASE SecondByte
    <2>1. ASSUME ByteRead("["), at' = "csi", param' = 0, guard' = 0, UNCHANGED <<keys, woken>>
          PROVE  InputType'
        BY <1>2, <1>7, <2>1, ByteType DEF SecondByte, InputType, TypeOK
    <2>2. ASSUME ByteRead("O"), Wait("ss3"), UNCHANGED woken PROVE InputType'
        BY <1>2, <1>7, <2>2, ByteType DEF SecondByte, Wait, InputType, TypeOK
    <2>3. ASSUME queue # <<>>, queue' = Tail(queue), idle' = 0, Return("ESC"),
                 UNCHANGED <<woken, misled>>
          PROVE  InputType'
        <3>1. keys' \in Seq(Names) /\ at' = "top" /\ guard' = guard /\ param' = param
            BY <2>3, ReturnType, NamedKeys
        <3>2. queue' \in Seq(Bytes)
            BY <2>3 DEF InputType
        <3> QED
            BY <1>2, <1>7, <2>3, <3>1, <3>2 DEF SecondByte, InputType, TypeOK
    <2>4. UNCHANGED <<console, got_int>>
        BY <1>7 DEF SecondByte
    <2>5. CASE ReadOn
        BY <1>4, <2>4, <2>5
    <2>6. CASE EofRead /\ Return("ESC")
        BY <1>5, <2>4, <2>6, NamedKeys
    <2> QED
        BY <1>7, <2>1, <2>2, <2>3, <2>5, <2>6 DEF SecondByte
<1>8. CASE CsiByte
    <2>1. ASSUME NEW d \in Parameters, ByteRead(d),
                 param' = IF d = ";" THEN param ELSE 10 * param + Digit[d],
                 guard' = guard + 1,
                 \/ guard + 1 < SeqMax /\ at' = "csi" /\ UNCHANGED keys
                 \/ guard + 1 >= SeqMax /\ at' = "top" /\ keys' = Append(keys, "NONE"),
                 UNCHANGED woken
          PROVE  InputType'
        <3>0. param \in Nat /\ guard \in 0 .. SeqMax /\ guard < SeqMax /\ keys \in Seq(Names)
            BY <1>8 DEF CsiByte, InputType, TypeOK
        <3>1. param' \in Nat
            <4>1. CASE d = ";"
                BY <2>1, <3>0, <4>1
            <4>2. CASE d # ";"
                <5>1. Digit[d] \in Nat
                    BY <2>1, <4>2, DigitType DEF Parameters
                <5>2. param' = 10 * param + Digit[d]
                    BY <2>1, <4>2
                <5> QED
                    BY <3>0, <5>1, <5>2, NextNumber
            <4> QED
                BY <4>1, <4>2
        <3>2. guard' \in 0 .. SeqMax
            <4>1. guard' = guard + 1
                BY <2>1
            <4> QED
                BY <3>0, <4>1, NextGuard
        <3>3. at' \in {"csi", "top"} /\ (at' = "csi" => guard' < SeqMax)
            BY <2>1
        <3>4. keys' \in Seq(Names)
            <4>1. Append(keys, "NONE") \in Seq(Names)
                BY <3>0, NamedKeys, AppendProperties
            <4>2. keys' = keys \/ keys' = Append(keys, "NONE")
                BY <2>1
            <4> QED
                BY <3>0, <4>1, <4>2
        <3> QED
            BY <1>2, <1>8, <2>1, <3>1, <3>2, <3>3, <3>4, ByteType DEF CsiByte, InputType, TypeOK
    <2>2. UNCHANGED <<console, got_int>>
        BY <1>8 DEF CsiByte
    <2>3. ASSUME NEW b, ByteRead(b), Return(FinalKey(b, param)), UNCHANGED woken
          PROVE  InputType'
        BY <1>6, <2>2, <2>3, FinalType
    <2>5. CASE ReadOn
        BY <1>4, <2>2, <2>5
    <2>6. CASE EofRead /\ Return("ESC")
        BY <1>5, <2>2, <2>6, NamedKeys
    <2> QED
        BY <1>8, <2>1, <2>3, <2>5, <2>6 DEF CsiByte
<1>9. CASE Ss3Byte
    <2>1. UNCHANGED <<console, got_int>>
        BY <1>9 DEF Ss3Byte
    <2>2. ASSUME NEW b, ByteRead(b), Return(LetterKey(b)), UNCHANGED woken
          PROVE  InputType'
        BY <1>6, <2>1, <2>2, LetterType
    <2>3. CASE ReadOn
        BY <1>4, <2>1, <2>3
    <2>4. CASE EofRead /\ Return("NONE")
        BY <1>5, <2>1, <2>4, NamedKeys
    <2> QED
        BY <1>9, <2>2, <2>3, <2>4 DEF Ss3Byte
<1>10. ASSUME NEW s \in Strokes, Press(s) PROVE InputType'
    <2>0. /\ s.bytes \in Seq(Bytes) /\ s.bytes # <<>>
          /\ Head(s.bytes) \in Bytes /\ Tail(s.bytes) \in Seq(Bytes)
        BY InputAssumption, HeadTailProperties
    <2>1. /\ typed' \in Seq(Pressable) /\ Len(typed') = Len(typed) + 1
          /\ queue' \in Seq(Bytes) /\ wire' \in Seq(Bytes)
        BY <1>10, <2>0, StrokeType, AppendProperties DEF Press, InputType
    <2>2. Len(typed') <= MaxStrokes
        BY <1>10, <2>1 DEF Press, InputType
    <2> QED
        BY <1>10, <2>1, <2>2 DEF Press, parser, InputType, TypeOK
<1>11. CASE Signal
    <2>1. woken \in BOOLEAN /\ gone \in BOOLEAN
        BY DEF InputType, TypeOK
    <2>2. woken' \in BOOLEAN
        <3>1. woken' = woken
              \/ woken' = (woken \/ (at # "top" /\ pending = "none" /\ queue = <<>>))
            BY <1>11 DEF Signal
        <3> QED
            BY <2>1, <3>1
    <2>3. got_int' = TRUE /\ gone' = gone
        BY <1>11 DEF Signal
    <2>4. {gone', woken', got_int', misled'} \subseteq BOOLEAN
        BY <1>11, <2>1, <2>2, <2>3 DEF Signal, parser, InputType, TypeOK
    <2> QED
        BY <1>11, <2>4 DEF Signal, parser, InputType, TypeOK
<1>12. CASE Hangup
    BY <1>12 DEF Hangup, parser, InputType, TypeOK
<1>13. CASE Arrive
    <2>1. queue' \in Seq(Bytes) /\ wire' \in Seq(Bytes)
        BY <1>13, HeadTailProperties, AppendProperties DEF Arrive, InputType
    <2> QED
        BY <1>13, <2>1 DEF Arrive, parser, InputType, TypeOK
<1>14. CASE UNCHANGED vars
    BY <1>14 DEF vars, InputType, TypeOK
<1> QED
    BY <1>1, <1>3, <1>7, <1>8, <1>9, <1>10, <1>11, <1>12, <1>13, <1>14 DEF Next

LEMMA TypeInit == Init => InputType
<1> SUFFICES ASSUME Init PROVE InputType
    OBVIOUS
<1>1. typed = <<>> /\ wire = <<>> /\ queue = <<>> /\ keys = <<>>
    BY DEF Init
<1>2. /\ typed \in Seq(Pressable) /\ keys \in Seq(Names) /\ Len(typed) = 0
      /\ queue \in Seq(Bytes) /\ wire \in Seq(Bytes)
    BY <1>1, EmptySeq
<1>3. {gone, woken, got_int, misled} \subseteq BOOLEAN
    BY DEF Init
<1> QED
    BY <1>2, <1>3, InputAssumption DEF Init, InputType, TypeOK

\* Every variable keeps its type, whatever is typed and signalled.
THEOREM InputTypeHolds == Spec => []InputType
<1>1. InputType /\ [Next]_vars => InputType'
    BY TypeStep
<1> QED
    BY <1>1, TypeInit, PTL DEF Spec

\* ... which is the type invariant the runs state.
COROLLARY InputTypeOK == Spec => []TypeOK
<1>1. InputType => TypeOK
    BY DEF InputType
<1> QED
    BY <1>1, InputTypeHolds, PTL

-----------------------------------------------------------------------------
(* A session that ends                                                     *)

\* As long as the terminal is there, every empty read in a row has used up a
\* signal, and so will the one that is on its way.
SignalsSpent == idle <= signals /\ (woken => idle < signals)

SignalInv ==
    /\ InputType
    /\ ~ gone => SignalsSpent
    /\ (misled \/ (at = "over" /\ ~ gone)) => IdleMax < signals

LEMMA Spent == ASSUME InputType PROVE signals \in Nat /\ idle \in Nat
    BY Limits DEF InputType, TypeOK

\* An empty read takes the signal that caused it into account.
LEMMA NothingSpends ==
    ASSUME SignalInv, IntrRead \/ EofRead, UNCHANGED <<gone, signals>>, InputType'
    PROVE  /\ ~ gone' => SignalsSpent'
           /\ EofRead /\ ~ gone => IdleMax < signals
           /\ misled' => misled \/ IdleMax < signals
<1>0. misled' => misled \/ (EofRead /\ ~ gone)
    BY Zenon DEF IntrRead, EofRead
<1> SUFFICES ASSUME ~ gone
             PROVE  SignalsSpent' /\ (EofRead => IdleMax < signals)
    BY <1>0
<1>1. woken /\ woken' = FALSE
    BY DEF IntrRead, EofRead, Nothing
<1>2. idle < signals /\ idle \in Nat /\ signals \in Nat
    BY <1>1, Spent DEF SignalInv, SignalsSpent
<1>3. SignalsSpent' <=> idle' <= signals
    <2>1. woken' = FALSE /\ signals' = signals
        BY <1>1
    <2>2. idle' \in Nat
        BY Limits DEF InputType, TypeOK
    <2> QED
        BY <1>2, <2>1, <2>2 DEF SignalsSpent
<1>4. CASE EofRead
    <2>1. idle >= IdleMax /\ idle' = IdleMax + 1
        BY <1>4, <1>1 DEF EofRead
    <2> QED
        BY <1>2, <1>3, <2>1, Limits
<1>5. CASE ~ EofRead
    <2>1. idle' = idle \/ idle' = idle + 1
        BY <1>5 DEF IntrRead
    <2> QED
        BY <1>2, <1>3, <1>5, <2>1
<1> QED
    BY <1>4, <1>5

LEMMA SignalStep == ASSUME SignalInv, [Next]_vars PROVE SignalInv'
<1>1. InputType /\ InputType'
    BY TypeStep DEF SignalInv
<1>2. ASSUME UNCHANGED <<gone, signals, misled>>, SignalsSpent => SignalsSpent',
             at' # "over" \/ at' = at
      PROVE  SignalInv'
    BY <1>1, <1>2 DEF SignalInv
<1>3. ASSUME UNCHANGED <<gone, signals, woken>>, idle' = idle \/ idle' = 0
      PROVE  SignalsSpent => SignalsSpent'
    <2>1. woken' = woken /\ signals' = signals /\ idle' <= idle
        BY <1>1, <1>3, Spent
    <2>2. idle \in Nat /\ idle' \in Nat /\ signals \in Nat
        BY <1>1, Limits DEF InputType, TypeOK
    <2> QED
        BY <2>1, <2>2 DEF SignalsSpent
<1>4. ASSUME UNCHANGED <<gone, signals>>, UNCHANGED woken, NEW b, ByteRead(b), at' # "over"
      PROVE  SignalInv'
    <2>1. (idle' = idle \/ idle' = 0) /\ misled' = misled
        BY <1>4 DEF ByteRead
    <2> QED
        BY <1>2, <1>3, <1>4, <2>1
<1>5. ASSUME UNCHANGED <<gone, signals>>, IntrRead \/ EofRead, at' # "over"
      PROVE  SignalInv'
    BY <1>1, <1>5, NothingSpends DEF SignalInv
<1>6. CASE CheckSignal
    BY <1>2, <1>3, <1>6 DEF CheckSignal, console
<1>7. CASE FirstByte
    <2>1. UNCHANGED <<gone, signals>>
        BY <1>7 DEF FirstByte, console
    <2>2. ASSUME NEW b, ByteRead(b), Wait("esc") \/ Return(b), UNCHANGED <<got_int, woken>>
          PROVE  SignalInv'
        BY <1>4, <2>1, <2>2 DEF Wait, Return
    <2>3. CASE IntrRead /\ Wait("top")
        BY <1>5, <2>1, <2>3 DEF Wait
    <2>4. CASE EofRead
        BY <1>1, <2>1, <2>4, NothingSpends DEF SignalInv
    <2> QED
        BY <1>7, <2>2, <2>3, <2>4 DEF FirstByte
<1>8. CASE SecondByte
    <2>1. UNCHANGED <<gone, signals>>
        BY <1>8 DEF SecondByte, console
    <2>2. CASE ByteRead("[") /\ at' = "csi" /\ UNCHANGED <<keys, woken>>
        BY <1>4, <2>1, <2>2
    <2>3. CASE ByteRead("O") /\ Wait("ss3") /\ UNCHANGED woken
        BY <1>4, <2>1, <2>3 DEF Wait
    <2>4. CASE idle' = 0 /\ Return("ESC") /\ UNCHANGED <<woken, misled>>
        BY <1>2, <1>3, <2>1, <2>4 DEF Return
    <2>5. CASE ReadOn
        BY <1>5, <1>8, <2>1, <2>5 DEF ReadOn, SecondByte
    <2>6. CASE EofRead /\ Return("ESC")
        BY <1>5, <2>1, <2>6 DEF Return
    <2> QED
        BY <1>8, <2>2, <2>3, <2>4, <2>5, <2>6 DEF SecondByte
<1>9. CASE CsiByte
    <2>1. UNCHANGED <<gone, signals>>
        BY <1>9 DEF CsiByte, console
    <2>2. ASSUME NEW d, ByteRead(d), at' \in {"csi", "top"}, UNCHANGED woken
          PROVE  SignalInv'
        BY <1>4, <2>1, <2>2
    <2>3. ASSUME NEW b, NEW key, ByteRead(b), Return(key), UNCHANGED woken PROVE SignalInv'
        BY <1>4, <2>1, <2>3 DEF Return
    <2>5. CASE ReadOn
        BY <1>5, <1>9, <2>1, <2>5 DEF ReadOn, CsiByte
    <2>6. CASE EofRead /\ Return("ESC")
        BY <1>5, <2>1, <2>6 DEF Return
    <2> QED
        BY <1>9, <2>2, <2>3, <2>5, <2>6 DEF CsiByte
<1>10. CASE Ss3Byte
    <2>1. UNCHANGED <<gone, signals>>
        BY <1>10 DEF Ss3Byte, console
    <2>3. ASSUME NEW b, NEW key, ByteRead(b), Return(key), UNCHANGED woken PROVE SignalInv'
        BY <1>4, <2>1, <2>3 DEF Return
    <2>5. CASE ReadOn
        BY <1>5, <1>10, <2>1, <2>5 DEF ReadOn, Ss3Byte
    <2>6. CASE EofRead /\ Return("NONE")
        BY <1>5, <2>1, <2>6 DEF Return
    <2> QED
        BY <1>10, <2>3, <2>5, <2>6 DEF Ss3Byte
<1>11. ASSUME NEW s \in Strokes, Press(s) PROVE SignalInv'
    BY <1>2, <1>3, <1>11 DEF Press, parser
<1>12. CASE Signal
    <2>1. /\ at' = at /\ at # "over" /\ idle' = idle /\ gone' = gone
          /\ signals' = signals + 1 /\ misled' = misled
        BY <1>12 DEF Signal, parser
    <2>2. idle \in Nat /\ signals \in Nat
        BY <1>1, Spent
    <2>3. SignalsSpent => SignalsSpent'
        BY <2>1, <2>2 DEF SignalsSpent
    <2> QED
        BY <1>1, <2>1, <2>2, <2>3, Limits DEF SignalInv
<1>13. CASE Hangup
    BY <1>1, <1>13 DEF Hangup, parser, SignalInv
<1>14. CASE Arrive
    BY <1>2, <1>3, <1>14 DEF Arrive, parser
<1>15. CASE UNCHANGED vars
    BY <1>2, <1>3, <1>15 DEF vars
<1> QED
    BY <1>6, <1>7, <1>8, <1>9, <1>10, <1>11, <1>12, <1>13, <1>14, <1>15 DEF Next

LEMMA SignalInit == Init => SignalInv
<1> SUFFICES ASSUME Init PROVE SignalInv
    OBVIOUS
<1>1. SignalsSpent /\ at # "over" /\ ~ misled
    BY DEF Init, SignalsSpent
<1> QED
    BY <1>1, TypeInit DEF SignalInv

\* Only a terminal that is gone ends the session or a sequence, as long as no
\* more signals come than empty reads are forgiven: for every keyboard, every number of
\* forgiven reads and every moment the signals may come.
THEOREM FewSignalsNeverEndHolds == Spec => []FewSignalsNeverEnd
<1>1. SignalInv /\ [Next]_vars => SignalInv'
    BY SignalStep
<1>2. SignalInv => FewSignalsNeverEnd
    <2> SUFFICES ASSUME SignalInv, signals <= IdleMax PROVE ~ misled /\ (at = "over" => gone)
        BY DEF FewSignalsNeverEnd
    <2>1. ~ (IdleMax < signals)
        BY Limits DEF SignalInv, InputType
    <2> QED
        BY <2>1 DEF SignalInv
<1> QED
    BY <1>1, <1>2, SignalInit, PTL DEF Spec

-----------------------------------------------------------------------------
(* The bytes on their way                                                  *)

\* The bytes of q follow on each other: byte j is the nth[j]-th of the of[j]-th
\* stroke, and after the last byte of a stroke comes the first of the next.
\* Position 0 is that of the byte taken last, which is the end of the stroke
\* before the first when none was.
Size(ss, i) == IF i = 0 THEN 0 ELSE Len(ss[i].bytes)
Follows(ss, i, p, i2, p2) ==
    /\ p < Size(ss, i) => i2 = i /\ p2 = p + 1
    /\ p >= Size(ss, i) => i2 = i + 1 /\ p2 = 1
IsByte(n, ss, i, p, b) == i \in 1 .. n /\ p \in 1 .. Size(ss, i) /\ b = ss[i].bytes[p]

Stream(n, q, ss, of, nth) ==
    /\ of \in [0 .. Len(q) -> 0 .. n] /\ nth \in [0 .. Len(q) -> Nat]
    /\ \A j \in 1 .. Len(q) : IsByte(n, ss, of[j], nth[j], q[j])
    /\ \A j \in 0 .. Len(q) - 1 : Follows(ss, of[j], nth[j], of[j + 1], nth[j + 1])
    /\ of[Len(q)] = n /\ nth[Len(q)] = Size(ss, n)
\* ... from the p-th byte of stroke i on, when k of the bytes have arrived, the
\* last stroke has begun to.
Reading(n, q, k, ss, i, p) ==
    \E of, nth : Stream(n, q, ss, of, nth) /\ of[0] = i /\ nth[0] = p /\ of[k] = n

\* Taking the first byte moves on by one place.
LEMMA Take ==
    ASSUME NEW n \in Nat, NEW q \in Seq(Bytes), q # <<>>, NEW k \in 1 .. Len(q),
           NEW ss, NEW i, NEW p, Reading(n, q, k, ss, i, p)
    PROVE  \E i2, p2 : /\ Reading(n, Tail(q), k - 1, ss, i2, p2)
                       /\ Follows(ss, i, p, i2, p2)
                       /\ IsByte(n, ss, i2, p2, Head(q))
<1>1. PICK of, nth : Stream(n, q, ss, of, nth) /\ of[0] = i /\ nth[0] = p /\ of[k] = n
    BY DEF Reading
<1>2. /\ Len(q) \in Nat \ {0} /\ Len(Tail(q)) = Len(q) - 1 /\ Head(q) = q[1]
      /\ \A j \in 1 .. Len(q) - 1 : Tail(q)[j] = q[j + 1]
    BY HeadTailProperties, EmptySeq
<1> DEFINE m == Len(q)
           of2 == [j \in 0 .. m - 1 |-> of[j + 1]]
           nth2 == [j \in 0 .. m - 1 |-> nth[j + 1]]
<1>3. of2 \in [0 .. m - 1 -> 0 .. n] /\ nth2 \in [0 .. m - 1 -> Nat]
    BY <1>1, <1>2 DEF Stream
<1>4. ASSUME NEW j \in 1 .. m - 1 PROVE IsByte(n, ss, of2[j], nth2[j], Tail(q)[j])
    <2>1. IsByte(n, ss, of[j + 1], nth[j + 1], q[j + 1])
        BY <1>1, <1>2 DEF Stream
    <2> QED
        BY <1>2, <2>1
<1>5. ASSUME NEW j \in 0 .. m - 2 PROVE Follows(ss, of2[j], nth2[j], of2[j + 1], nth2[j + 1])
    <2>1. Follows(ss, of[j + 1], nth[j + 1], of[j + 2], nth[j + 2])
        BY <1>1, <1>2 DEF Stream
    <2>2. /\ of2[j] = of[j + 1] /\ nth2[j] = nth[j + 1]
          /\ of2[j + 1] = of[j + 2] /\ nth2[j + 1] = nth[j + 2]
        BY <1>2
    <2> QED
        BY <2>1, <2>2
<1>6. of2[m - 1] = n /\ nth2[m - 1] = Size(ss, n)
    BY <1>1, <1>2 DEF Stream
<1>7. of2[0] = of[1] /\ nth2[0] = nth[1]
    BY <1>2
<1>8. Stream(n, Tail(q), ss, of2, nth2)
    <2> HIDE DEF of2, nth2
    <2> QED
        BY <1>2, <1>3, <1>4, <1>5, <1>6 DEF Stream
<1>9. Follows(ss, i, p, of2[0], nth2[0]) /\ IsByte(n, ss, of2[0], nth2[0], Head(q))
    <2>1. Follows(ss, of[0], nth[0], of[1], nth[1]) /\ IsByte(n, ss, of[1], nth[1], q[1])
        BY <1>1, <1>2 DEF Stream
    <2> QED
        BY <1>1, <1>2, <1>7, <2>1
<1>10. Reading(n, Tail(q), k - 1, ss, of2[0], nth2[0])
    <2>1. of2[k - 1] = n
        BY <1>1, <1>2
    <2> HIDE DEF of2, nth2
    <2> QED
        BY <1>8, <2>1 DEF Reading
<1> QED
    BY <1>9, <1>10

\* Nothing on its way: all that was pressed has been read.
LEMMA Drained ==
    ASSUME NEW n \in Nat, NEW k, NEW ss, NEW i, NEW p, Reading(n, <<>>, k, ss, i, p)
    PROVE  i = n /\ p = Size(ss, n)
    BY EmptySeq DEF Reading, Stream

\* Nothing to read, though more may be on its way: it is of the last stroke.
LEMMA Halted ==
    ASSUME NEW n \in Nat, NEW q, NEW ss, NEW i, NEW p, Reading(n, q, 0, ss, i, p)
    PROVE  i = n
    BY DEF Reading

\* A byte arrives: it too is of the last stroke.
LEMMA Arrives ==
    ASSUME NEW n \in Nat, NEW q \in Seq(Bytes), NEW k \in Nat, k < Len(q),
           NEW ss, NEW i, NEW p, Reading(n, q, k, ss, i, p)
    PROVE  Reading(n, q, k + 1, ss, i, p)
<1>1. PICK of, nth : Stream(n, q, ss, of, nth) /\ of[0] = i /\ nth[0] = p /\ of[k] = n
    BY DEF Reading
<1>2. k \in 0 .. Len(q) - 1 /\ k + 1 \in 1 .. Len(q)
    OBVIOUS
<1>3. Follows(ss, of[k], nth[k], of[k + 1], nth[k + 1]) /\ nth[k] \in Nat
    BY <1>1, <1>2 DEF Stream
<1>4. of[k + 1] \in 1 .. n
    BY <1>1, <1>2 DEF Stream, IsByte
<1>5. of[k + 1] = n \/ of[k + 1] = n + 1
    <2>1. Size(ss, n) \in Nat
        BY <1>1 DEF Stream
    <2> QED
        BY <1>1, <1>3, <2>1 DEF Follows
<1>6. of[k + 1] = n
    BY <1>4, <1>5
<1> QED
    BY <1>1, <1>6 DEF Reading

\* A key that is pressed adds its bytes at the end.
LEMMA Extend ==
    ASSUME NEW n \in Nat, NEW q \in Seq(Bytes), NEW ss \in [1 .. n -> Strokes],
           NEW i, NEW p, Reading(n, q, Len(q), ss, i, p), NEW s \in Strokes,
           NEW ss2 \in [1 .. n + 1 -> Strokes],
           \A j \in 1 .. n : ss2[j] = ss[j],
           ss2[n + 1] = s
    PROVE  Reading(n + 1, q \o s.bytes, Len(q) + 1, ss2, i, p)
<1>1. PICK of, nth : Stream(n, q, ss, of, nth) /\ of[0] = i /\ nth[0] = p
    BY DEF Reading
<1> DEFINE m == Len(q)
           k == Len(s.bytes)
           q2 == q \o s.bytes
           of2 == [j \in 0 .. m + k |-> IF j <= m THEN of[j] ELSE n + 1]
           nth2 == [j \in 0 .. m + k |-> IF j <= m THEN nth[j] ELSE j - m]
<1>2. m \in Nat /\ k \in Nat \ {0} /\ s.bytes \in Seq(Bytes)
    BY StrokeType
<1>3. /\ Len(q2) = m + k
      /\ \A j \in 1 .. m : q2[j] = q[j]
      /\ \A j \in m + 1 .. m + k : q2[j] = s.bytes[j - m]
    BY <1>2, ConcatProperties
<1>4. /\ \A j \in 0 .. n : Size(ss2, j) = Size(ss, j)
      /\ Size(ss2, n + 1) = k
    BY DEF Size
<1>5. /\ of \in [0 .. m -> 0 .. n] /\ nth \in [0 .. m -> Nat]
      /\ of[m] = n /\ nth[m] = Size(ss, n)
      /\ \A j \in 1 .. m : IsByte(n, ss, of[j], nth[j], q[j])
      /\ \A j \in 0 .. m - 1 : Follows(ss, of[j], nth[j], of[j + 1], nth[j + 1])
    BY <1>1 DEF Stream
<1>6. /\ of2 \in [0 .. m + k -> 0 .. n + 1] /\ nth2 \in [0 .. m + k -> Nat]
      /\ \A j \in 0 .. m : of2[j] = of[j] /\ nth2[j] = nth[j]
      /\ \A j \in m + 1 .. m + k : of2[j] = n + 1 /\ nth2[j] = j - m
    BY <1>2, <1>5
<1> HIDE DEF m, k, q2, of2, nth2
<1>7. ASSUME NEW j \in 1 .. m + k
      PROVE  IsByte(n + 1, ss2, of2[j], nth2[j], q2[j])
    <2>1. CASE j <= m
        <3>1. IsByte(n, ss, of[j], nth[j], q[j]) /\ of[j] \in 0 .. n
            <4>1. j \in 1 .. m /\ j \in 0 .. m
                BY <1>2, <2>1
            <4> QED
                BY <1>5, <4>1
        <3>2. of2[j] = of[j] /\ nth2[j] = nth[j] /\ q2[j] = q[j]
            BY <1>2, <1>3, <1>6, <2>1
        <3>3. of[j] \in 1 .. n /\ ss2[of[j]] = ss[of[j]] /\ Size(ss2, of[j]) = Size(ss, of[j])
            BY <1>4, <3>1 DEF IsByte
        <3> QED
            BY <3>1, <3>2, <3>3 DEF IsByte
    <2>2. CASE j > m
        <3>1. of2[j] = n + 1 /\ nth2[j] = j - m /\ q2[j] = s.bytes[j - m]
            BY <1>2, <1>3, <1>6, <2>2
        <3>2. n + 1 \in 1 .. n + 1 /\ j - m \in 1 .. k
            BY <1>2, <2>2
        <3> QED
            BY <1>4, <3>1, <3>2 DEF IsByte
    <2> QED
        BY <1>2, <2>1, <2>2
<1>8. ASSUME NEW j \in 0 .. m + k - 1
      PROVE  Follows(ss2, of2[j], nth2[j], of2[j + 1], nth2[j + 1])
    <2>1. CASE j < m
        <3>1. Follows(ss, of[j], nth[j], of[j + 1], nth[j + 1]) /\ of[j] \in 0 .. n
            <4>1. j \in 0 .. m - 1 /\ j \in 0 .. m
                BY <1>2, <2>1
            <4> QED
                BY <1>5, <4>1
        <3>2. /\ of2[j] = of[j] /\ nth2[j] = nth[j]
              /\ of2[j + 1] = of[j + 1] /\ nth2[j + 1] = nth[j + 1]
            BY <1>2, <1>6, <2>1
        <3> QED
            BY <1>4, <3>1, <3>2 DEF Follows
    <2>2. CASE j = m
        <3>1. /\ of2[j] = n /\ nth2[j] = Size(ss, n)
              /\ of2[j + 1] = n + 1 /\ nth2[j + 1] = 1
            BY <1>2, <1>5, <1>6, <2>2
        <3>2. Size(ss2, n) = Size(ss, n) /\ Size(ss, n) \in Nat
            BY <1>4, <1>5, <1>2
        <3> QED
            BY <3>1, <3>2 DEF Follows
    <2>3. CASE j > m
        <3>1. /\ of2[j] = n + 1 /\ nth2[j] = j - m
              /\ of2[j + 1] = n + 1 /\ nth2[j + 1] = j + 1 - m
            BY <1>2, <1>6, <2>3
        <3>2. j - m < Size(ss2, n + 1)
            BY <1>2, <1>4, <2>3
        <3> QED
            BY <1>2, <3>1, <3>2, <1>4 DEF Follows
    <2> QED
        BY <1>2, <2>1, <2>2, <2>3
<1>9. of2[m + k] = n + 1 /\ nth2[m + k] = Size(ss2, n + 1)
    BY <1>2, <1>4, <1>6
<1>10. Stream(n + 1, q \o s.bytes, ss2, of2, nth2)
    <2>1. Stream(n + 1, q2, ss2, of2, nth2)
        <3>1. Len(q2) = m + k
            BY <1>3
        <3>2. of2 \in [0 .. Len(q2) -> 0 .. n + 1] /\ nth2 \in [0 .. Len(q2) -> Nat]
            BY <1>6, <3>1
        <3>3. \A j \in 1 .. Len(q2) : IsByte(n + 1, ss2, of2[j], nth2[j], q2[j])
            BY <1>7, <3>1, Zenon
        <3>4. \A j \in 0 .. Len(q2) - 1 : Follows(ss2, of2[j], nth2[j], of2[j + 1], nth2[j + 1])
            <4> SUFFICES ASSUME NEW j \in 0 .. Len(q2) - 1
                         PROVE  Follows(ss2, of2[j], nth2[j], of2[j + 1], nth2[j + 1])
                OBVIOUS
            <4>1. j \in 0 .. m + k - 1
                BY <1>2, <3>1
            <4> QED
                BY <1>8, <4>1
        <3>5. of2[Len(q2)] = n + 1 /\ nth2[Len(q2)] = Size(ss2, n + 1)
            BY <1>9, <3>1
        <3> QED
            BY <3>2, <3>3, <3>4, <3>5, Zenon DEF Stream
    <2> QED
        BY <2>1 DEF q2
<1>11. of2[0] = i /\ nth2[0] = p /\ of2[Len(q) + 1] = n + 1
    <2>1. of2[m + 1] = n + 1
        BY <1>2, <1>6
    <2> QED
        BY <1>1, <1>2, <1>6, <2>1 DEF m
<1> QED
    BY <1>10, <1>11 DEF Reading

LEMMA SameSeq ==
    \A s1, s2 \in Seq(Bytes) :
        Len(s1) = Len(s2) /\ (\A j \in 1 .. Len(s1) : s1[j] = s2[j]) => s1 = s2
<1> SUFFICES ASSUME NEW s1 \in Seq(Bytes), NEW s2 \in Seq(Bytes), Len(s1) = Len(s2),
                    \A j \in 1 .. Len(s1) : s1[j] = s2[j]
             PROVE  s1 = s2
    OBVIOUS
<1>1. s1 = [j \in 1 .. Len(s1) |-> s1[j]] /\ s2 = [j \in 1 .. Len(s2) |-> s2[j]]
    OBVIOUS
<1> QED
    BY <1>1

\* What is on its way, arrived or not, as a byte arrives and as one is read.
LEMMA AppendConcat ==
    ASSUME NEW q \in Seq(Bytes), NEW w \in Seq(Bytes), w # <<>>
    PROVE  Append(q, Head(w)) \o Tail(w) = q \o w
<1> DEFINE a == Append(q, Head(w))
<1>1. /\ Head(w) \in Bytes /\ Tail(w) \in Seq(Bytes) /\ Len(Tail(w)) = Len(w) - 1
      /\ \A j \in 1 .. Len(w) - 1 : Tail(w)[j] = w[j + 1]
      /\ Len(w) \in Nat \ {0} /\ Head(w) = w[1] /\ Len(q) \in Nat
    BY HeadTailProperties, EmptySeq
<1>2. /\ a \in Seq(Bytes) /\ Len(a) = Len(q) + 1 /\ a[Len(q) + 1] = w[1]
      /\ \A j \in 1 .. Len(q) : a[j] = q[j]
    BY <1>1, AppendProperties
<1> HIDE DEF a
<1>3. /\ a \o Tail(w) \in Seq(Bytes) /\ Len(a \o Tail(w)) = Len(q) + Len(w)
      /\ \A j \in 1 .. Len(q) + Len(w) :
            (a \o Tail(w))[j] = IF j <= Len(q) + 1 THEN a[j] ELSE Tail(w)[j - (Len(q) + 1)]
    <2>1. Len(a) + Len(Tail(w)) = Len(q) + Len(w)
        BY <1>1, <1>2
    <2>2. /\ a \o Tail(w) \in Seq(Bytes) /\ Len(a \o Tail(w)) = Len(a) + Len(Tail(w))
          /\ \A j \in 1 .. Len(a) + Len(Tail(w)) :
                (a \o Tail(w))[j] = IF j <= Len(a) THEN a[j] ELSE Tail(w)[j - Len(a)]
        BY <1>1, <1>2, ConcatProperties
    <2> QED
        BY <1>2, <2>1, <2>2
<1>4. /\ q \o w \in Seq(Bytes) /\ Len(q \o w) = Len(q) + Len(w)
      /\ \A j \in 1 .. Len(q) + Len(w) :
            (q \o w)[j] = IF j <= Len(q) THEN q[j] ELSE w[j - Len(q)]
    BY ConcatProperties
<1>5. ASSUME NEW j \in 1 .. Len(q) + Len(w) PROVE (a \o Tail(w))[j] = (q \o w)[j]
    <2>1. CASE j <= Len(q)
        BY <1>1, <1>2, <1>3, <1>4, <2>1
    <2>2. CASE j = Len(q) + 1
        <3>1. j - Len(q) = 1 /\ ~ (j <= Len(q))
            BY <1>1, <2>2
        <3> QED
            BY <1>1, <1>2, <1>3, <1>4, <2>2, <3>1
    <2>3. CASE j > Len(q) + 1
        <3>1. /\ j - (Len(q) + 1) \in 1 .. Len(w) - 1
              /\ (j - (Len(q) + 1)) + 1 = j - Len(q)
              /\ ~ (j <= Len(q) + 1) /\ ~ (j <= Len(q))
            BY <1>1, <2>3
        <3> QED
            BY <1>1, <1>3, <1>4, <3>1
    <2>4. j <= Len(q) \/ j = Len(q) + 1 \/ j > Len(q) + 1
        BY <1>1
    <2> QED
        BY <2>1, <2>2, <2>3, <2>4
<1>6. a \o Tail(w) = q \o w
    <2>1. \A j \in 1 .. Len(a \o Tail(w)) : (a \o Tail(w))[j] = (q \o w)[j]
        BY <1>3, <1>5
    <2>2. Len(a \o Tail(w)) = Len(q \o w)
        BY <1>3, <1>4
    <2>3. a \o Tail(w) \in Seq(Bytes) /\ q \o w \in Seq(Bytes)
        BY <1>3, <1>4
    <2> QED
        BY <2>1, <2>2, <2>3, SameSeq, Zenon
<1> QED
    BY <1>6 DEF a

LEMMA TailConcat ==
    ASSUME NEW q \in Seq(Bytes), NEW w \in Seq(Bytes), q # <<>>
    PROVE  /\ Tail(q) \o w = Tail(q \o w) /\ Head(q \o w) = Head(q) /\ q \o w # <<>>
           /\ q \o w \in Seq(Bytes) /\ Len(q) \in 1 .. Len(q \o w)
           /\ Len(Tail(q)) = Len(q) - 1
<1>1. /\ Tail(q) \in Seq(Bytes) /\ Len(Tail(q)) = Len(q) - 1 /\ Head(q) = q[1]
      /\ \A j \in 1 .. Len(q) - 1 : Tail(q)[j] = q[j + 1]
      /\ Len(q) \in Nat \ {0} /\ Len(w) \in Nat
    BY HeadTailProperties, EmptySeq
<1> DEFINE c == q \o w
<1>2. /\ c \in Seq(Bytes) /\ Len(c) = Len(q) + Len(w)
      /\ \A j \in 1 .. Len(q) + Len(w) : c[j] = IF j <= Len(q) THEN q[j] ELSE w[j - Len(q)]
    BY ConcatProperties
<1> HIDE DEF c
<1>3. c # <<>> /\ Head(c) = q[1]
    <2>1. Len(c) # 0
        BY <1>1, <1>2
    <2>2. c # <<>>
        BY <2>1, EmptySeq
    <2> QED
        BY <1>1, <1>2, <2>2
<1>4. /\ Tail(c) \in Seq(Bytes) /\ Len(Tail(c)) = Len(q) + Len(w) - 1
      /\ \A j \in 1 .. Len(q) + Len(w) - 1 : Tail(c)[j] = c[j + 1]
    BY <1>2, <1>3, HeadTailProperties
<1>5. /\ Tail(q) \o w \in Seq(Bytes) /\ Len(Tail(q) \o w) = Len(q) + Len(w) - 1
      /\ \A j \in 1 .. Len(q) + Len(w) - 1 :
            (Tail(q) \o w)[j] = IF j <= Len(q) - 1 THEN Tail(q)[j] ELSE w[j - (Len(q) - 1)]
    <2>1. Len(Tail(q)) + Len(w) = Len(q) + Len(w) - 1
        BY <1>1
    <2> QED
        BY <1>1, <2>1, ConcatProperties
<1>6. ASSUME NEW j \in 1 .. Len(q) + Len(w) - 1 PROVE (Tail(q) \o w)[j] = Tail(c)[j]
    <2>1. j + 1 \in 1 .. Len(q) + Len(w) /\ (j + 1) - Len(q) = j - (Len(q) - 1)
          /\ (j <= Len(q) - 1 <=> j + 1 <= Len(q))
        BY <1>1
    <2>2. Tail(c)[j] = c[j + 1]
        BY <1>4
    <2>3. CASE j <= Len(q) - 1
        <3>1. (Tail(q) \o w)[j] = q[j + 1]
            BY <1>1, <1>5, <2>3
        <3>2. c[j + 1] = q[j + 1]
            BY <1>2, <2>1, <2>3
        <3> QED
            BY <2>2, <3>1, <3>2
    <2>4. CASE ~ (j <= Len(q) - 1)
        <3>1. (Tail(q) \o w)[j] = w[j - (Len(q) - 1)]
            BY <1>5, <2>4
        <3>2. c[j + 1] = w[j - (Len(q) - 1)]
            BY <1>2, <2>1, <2>4
        <3> QED
            BY <2>2, <3>1, <3>2
    <2> QED
        BY <2>3, <2>4
<1>7. Tail(q) \o w = Tail(c)
    <2>1. \A j \in 1 .. Len(Tail(q) \o w) : (Tail(q) \o w)[j] = Tail(c)[j]
        BY <1>5, <1>6
    <2>2. Len(Tail(q) \o w) = Len(Tail(c))
        BY <1>4, <1>5
    <2>3. Tail(q) \o w \in Seq(Bytes) /\ Tail(c) \in Seq(Bytes)
        BY <1>4, <1>5
    <2> QED
        BY <2>1, <2>2, <2>3, SameSeq, Zenon
<1> QED
    BY <1>1, <1>2, <1>3, <1>7 DEF c

-----------------------------------------------------------------------------
(* The keys that come out                                                  *)

\* The four kinds of key, told apart by their bytes.
CsiBytes(s) == s.bytes[1] = ESC /\ s.bytes[2] = "[" /\ Csi(s, Nat)
Ss3Bytes(s) == /\ Len(s.bytes) = 3 /\ s.bytes[1] = ESC /\ s.bytes[2] = "O"
               /\ s.key = LetterKey(s.bytes[3])

LEMMA KnownBytes ==
    ASSUME Known(Nat), NEW s \in Strokes
    PROVE  /\ s.bytes[1] # ESC =>
                  Len(s.bytes) = 1 /\ s.key = s.bytes[1] /\ s.key # "none"
           /\ s.bytes[1] = ESC /\ Len(s.bytes) = 1 => LoneEsc(s)
           /\ s.bytes[1] = ESC /\ Len(s.bytes) # 1 => CsiBytes(s) \/ Ss3Bytes(s)
<1>1. CASE Character(s)
    <2>1. s.bytes[1] = s.key /\ Len(s.bytes) = 1
        BY <1>1 DEF Character
    <2>2. s.key \notin {ESC, "none"}
        BY <1>1 DEF Character
    <2> QED
        BY <2>1, <2>2
<1>2. CASE LoneEsc(s)
    <2>1. s.bytes[1] = ESC /\ Len(s.bytes) = 1
        BY <1>2 DEF LoneEsc
    <2> QED
        BY <1>2, <2>1
<1>3. CASE Csi(s, Nat)
    <2>1. Len(s.bytes) # 1 /\ s.bytes[1] = ESC /\ s.bytes[2] = "["
        BY <1>3, Limits DEF Csi
    <2> QED
        BY <1>3, <2>1 DEF CsiBytes
<1>4. CASE Ss3(s)
    <2>1. PICK b \in Bytes : s.bytes = <<ESC, "O", b>> /\ s.key = LetterKey(b)
        BY <1>4 DEF Ss3
    <2>2. Len(s.bytes) = 3 /\ s.bytes[1] = ESC /\ s.bytes[2] = "O" /\ s.bytes[3] = b
        BY <2>1
    <2> QED
        BY <2>1, <2>2 DEF Ss3Bytes
<1> QED
    BY <1>1, <1>2, <1>3, <1>4 DEF Known

\* Where a keyboard has an ESC key, what comes after it never looks like a
\* sequence.
LEMMA AfterEscape ==
    ASSUME Known(Nat), NEW s \in Strokes, LoneEsc(s), NEW s2 \in Strokes
    PROVE  s2.bytes[1] \notin {"[", "O"}
<1>1. s2.key \notin {"[", "O"}
    BY DEF Known
<1>2. s2.bytes[1] = ESC \/ s2.bytes[1] = s2.key
    BY KnownBytes
<1> QED
    BY <1>1, <1>2 DEF ESC

\* In the middle of a CSI sequence, after p of its bytes.
InCsi(s, p) ==
    /\ CsiBytes(s) /\ p = guard + 2 /\ p < Len(s.bytes)
    /\ \E val \in [2 .. Len(s.bytes) - 1 -> Nat] :
          Param(s, val) /\ CsiKey(s, val) /\ param = val[p]

Matches(ss) ==
    /\ ss \in [1 .. Len(typed) -> Strokes]
    /\ \A j \in 1 .. Len(typed) : typed[j] = ss[j].key
    /\ Len(keys) <= Len(typed)
    /\ \A j \in 1 .. Len(keys) : keys[j] = typed[j]

\* Between keys (with a byte pushed back, or none), or within the key that
\* comes after those returned.
Between(ss, i, p) ==
    \/ pending = "none" /\ i = Len(keys) /\ p = Size(ss, i)
    \/ /\ at # "over" /\ i = Len(keys) + 1 /\ i <= Len(typed) /\ p = 1
       /\ pending # "none" /\ pending = ss[i].bytes[1]
Within(ss, i, p) ==
    /\ pending = "none" /\ i = Len(keys) + 1 /\ i <= Len(typed)
    /\ \/ at = "esc" /\ p = 1 /\ ss[i].bytes[1] = ESC
       \/ at = "csi" /\ InCsi(ss[i], p)
       \/ at = "ss3" /\ p = 2 /\ Ss3Bytes(ss[i])

\* What has been read ends with byte p of stroke i.
Reads(ss, i, p) == Reading(Len(typed), queue \o wire, Len(queue), ss, i, p)
\* ... and once the next byte is taken.
ReadsNext(ss, i, p) ==
    Reading(Len(typed), Tail(queue) \o wire, Len(Tail(queue)), ss, i, p)

Parsed(ss, i, p) ==
    /\ Reads(ss, i, p)
    /\ IF at \in {"top", "read", "over"} THEN Between(ss, i, p) ELSE Within(ss, i, p)
KeyInv == InputType /\ \E ss, i, p : Matches(ss) /\ Parsed(ss, i, p)

\* The terminal went in the middle of the last key, and read_key has given it up.
Cut ==
    /\ gone /\ wire # <<>> /\ queue = <<>> /\ pending = "none"
    /\ at \in {"top", "read", "over"}
    /\ \E key \in {"ESC", "NONE"} : keys = Append(SubSeq(typed, 1, Len(typed) - 1), key)

StrokeInv == InputType /\ (~ misled => KeyInv \/ Cut)

LEMMA KeysPrefix ==
    ASSUME InputType, NEW ss, Matches(ss) PROVE keys = SubSeq(typed, 1, Len(keys))
<1>1. /\ typed \in Seq(Pressable) /\ keys \in Seq(Names)
      /\ Len(typed) \in Nat /\ Len(keys) \in Nat /\ Len(keys) <= Len(typed)
      /\ \A j \in 1 .. Len(keys) : keys[j] = typed[j]
    BY DEF InputType, Matches
<1> DEFINE sub == SubSeq(typed, 1, Len(keys))
<1>2. /\ sub \in Seq(Pressable) /\ Len(sub) = Len(keys)
      /\ \A j \in 1 .. Len(keys) : sub[j] = typed[j]
    BY <1>1, SubSeqProperties
<1> HIDE DEF sub
<1>3. keys = [j \in 1 .. Len(keys) |-> keys[j]] /\ sub = [j \in 1 .. Len(sub) |-> sub[j]]
    BY <1>1, <1>2
<1>4. keys = sub
    BY <1>1, <1>2, <1>3
<1> QED
    BY <1>4 DEF sub

LEMMA KeysFollow == ASSUME StrokeInv PROVE KeysAreStrokes
<1> SUFFICES ASSUME ~ misled, ~ Cut
             PROVE  /\ Len(keys) <= Len(typed)
                    /\ keys = SubSeq(typed, 1, Len(keys))
                    /\ (wire = <<>> /\ queue = <<>> /\ pending = "none"
                        /\ at \in {"top", "read", "over"}) => keys = typed
    BY DEF KeysAreStrokes, CutShort, Cut
<1>0. KeyInv
    BY DEF StrokeInv
<1>1. InputType
    BY DEF StrokeInv
<1>2. PICK ss, i, p : Matches(ss) /\ Parsed(ss, i, p)
    BY <1>0 DEF KeyInv
<1>3. /\ typed \in Seq(Pressable) /\ keys \in Seq(Names) /\ queue \in Seq(Bytes)
      /\ Len(typed) \in Nat /\ Len(keys) \in Nat /\ Len(keys) <= Len(typed)
      /\ \A j \in 1 .. Len(keys) : keys[j] = typed[j]
    BY <1>1, <1>2 DEF InputType, Matches
<1>4. keys = SubSeq(typed, 1, Len(keys))
    BY <1>1, <1>2, KeysPrefix
<1>5. ASSUME wire = <<>>, queue = <<>>, pending = "none", at \in {"top", "read", "over"}
      PROVE  keys = typed
    <2>1. i = Len(keys)
        BY <1>2, <1>5 DEF Parsed, Between
    <2>2. i = Len(typed)
        <3>1. queue \o wire = <<>>
            BY <1>5
        <3> QED
            BY <1>2, <1>3, <3>1, Drained DEF Parsed, Reads
    <2>3. keys = [j \in 1 .. Len(keys) |-> keys[j]] /\ typed = [j \in 1 .. Len(typed) |-> typed[j]]
        BY <1>3
    <2> QED
        BY <1>3, <2>1, <2>2, <2>3
<1> QED
    BY <1>3, <1>4, <1>5

LEMMA SizeType ==
    ASSUME NEW n \in Nat, NEW ss \in [1 .. n -> Strokes], NEW i \in 0 .. n
    PROVE  /\ Size(ss, i) \in Nat
           /\ i # 0 => /\ ss[i] \in Strokes /\ Size(ss, i) = Len(ss[i].bytes)
                       /\ Size(ss, i) \in Nat \ {0}
<1>1. CASE i = 0
    BY <1>1 DEF Size
<1>2. CASE i # 0
    <2>1. ss[i] \in Strokes /\ Size(ss, i) = Len(ss[i].bytes)
        BY <1>2 DEF Size
    <2> QED
        BY <2>1, StrokeType
<1> QED
    BY <1>1, <1>2

LEMMA Lengths ==
    ASSUME InputType
    PROVE  /\ Len(typed) \in Nat /\ Len(keys) \in Nat /\ queue \in Seq(Bytes)
           /\ typed \in Seq(Pressable) /\ keys \in Seq(Names)
    BY DEF InputType

\* Nothing is read, nothing returned and nothing pressed.
LEMMA Frame ==
    ASSUME KeyInv, InputType', UNCHANGED <<typed, wire, queue, keys, pending, param, guard>>,
           \/ at' = at
           \/ at \in {"top", "read"} /\ at' \in {"top", "read"}
           \/ at = "read" /\ pending = "none" /\ at' = "over"
    PROVE  KeyInv'
<1>1. PICK ss, i, p : Matches(ss) /\ Parsed(ss, i, p)
    BY DEF KeyInv
<1>2. /\ typed' = typed /\ wire' = wire /\ queue' = queue /\ keys' = keys
      /\ pending' = pending /\ param' = param /\ guard' = guard
    OBVIOUS
<1>3. Matches(ss)'
    BY <1>1, <1>2 DEF Matches
<1>4. Reads(ss, i, p)'
    BY <1>1, <1>2 DEF Parsed, Reads
<1>5. CASE at \in {"top", "read", "over"}
    <2>1. at' \in {"top", "read", "over"}
        BY <1>5
    <2>2. Between(ss, i, p)
        BY <1>1, <1>5 DEF Parsed
    <2>3. Between(ss, i, p)'
        BY <1>2, <1>5, <2>2 DEF Between
    <2> QED
        BY <1>3, <1>4, <2>1, <2>3 DEF KeyInv, Parsed
<1>6. CASE at \notin {"top", "read", "over"}
    <2>1. at' = at
        BY <1>6
    <2>2. Within(ss, i, p)
        BY <1>1, <1>6 DEF Parsed
    <2>3. Within(ss, i, p)'
        BY <1>2, <2>1, <2>2 DEF Within, InCsi
    <2> QED
        BY <1>3, <1>4, <1>6, <2>1, <2>3 DEF KeyInv, Parsed
<1> QED
    BY <1>5, <1>6

\* The key that is returned is the next one that was pressed.
LEMMA Returned ==
    ASSUME InputType, InputType', NEW ss, Matches(ss), NEW i, i = Len(keys) + 1, i <= Len(typed),
           UNCHANGED typed, Return(ss[i].key), NEW i2, NEW p2, Reads(ss, i2, p2)',
           \/ pending' = "none" /\ i2 = i /\ p2 = Size(ss, i)
           \/ /\ pending' # "none" /\ pending' = ss[i2].bytes[1]
              /\ i2 = i + 1 /\ i2 <= Len(typed) /\ p2 = 1
    PROVE  KeyInv'
<1>1. /\ Len(keys) \in Nat /\ keys \in Seq(Names) /\ Len(typed) \in Nat
    BY Lengths
<1>2. keys' = Append(keys, ss[i].key) /\ at' = "top"
    BY DEF Return
<1>3. ss[i].key \in Names \cup Pressable
    BY <1>1, StrokeType DEF Matches
<1>4. keys \in Seq(Names \cup Pressable)
    BY <1>1, SeqMonotonic
<1>5. /\ Len(keys') = i
      /\ \A j \in 1 .. Len(keys) : keys'[j] = keys[j]
      /\ keys'[i] = ss[i].key
    BY <1>1, <1>2, <1>3, <1>4, AppendProperties
<1>6. Matches(ss)'
    <2>1. \A j \in 1 .. Len(keys') : keys'[j] = typed'[j]
        <3> SUFFICES ASSUME NEW j \in 1 .. Len(keys') PROVE keys'[j] = typed[j]
            OBVIOUS
        <3>1. CASE j = i
            <4>1. typed[i] = ss[i].key
                BY <1>1 DEF Matches
            <4> QED
                BY <1>5, <3>1, <4>1
        <3>2. CASE j # i
            <4>1. j \in 1 .. Len(keys)
                BY <1>1, <1>5, <3>2
            <4> QED
                BY <1>5, <4>1 DEF Matches
        <3> QED
            BY <3>1, <3>2
    <2> QED
        BY <1>5, <2>1 DEF Matches
<1>7. Between(ss, i2, p2)'
    BY <1>1, <1>2, <1>5 DEF Between
<1> QED
    BY <1>2, <1>6, <1>7 DEF KeyInv, Parsed

\* The byte that comes next within a stroke, and after its last byte.
LEMMA Taken ==
    ASSUME InputType, NEW ss, Matches(ss), NEW i \in 0 .. Len(typed), NEW p \in Nat,
           p <= Size(ss, i), Reads(ss, i, p), queue # <<>>
    PROVE  /\ p < Size(ss, i) =>
                 /\ ReadsNext(ss, i, p + 1)
                 /\ Head(queue) = ss[i].bytes[p + 1]
           /\ p = Size(ss, i) =>
                 /\ ReadsNext(ss, i + 1, 1)
                 /\ i + 1 <= Len(typed)
                 /\ Head(queue) = ss[i + 1].bytes[1]
<1>1. Len(typed) \in Nat /\ queue \in Seq(Bytes)
    BY Lengths
<1>2. PICK i2, p2 : /\ ReadsNext(ss, i2, p2)
                    /\ Follows(ss, i, p, i2, p2)
                    /\ IsByte(Len(typed), ss, i2, p2, Head(queue))
    <2>1. Len(wire) \in Nat /\ wire \in Seq(Bytes)
        BY DEF InputType
    <2>2. /\ Tail(queue) \o wire = Tail(queue \o wire) /\ Head(queue \o wire) = Head(queue)
          /\ queue \o wire # <<>> /\ queue \o wire \in Seq(Bytes)
          /\ Len(queue) \in 1 .. Len(queue \o wire) /\ Len(Tail(queue)) = Len(queue) - 1
        BY <1>1, <2>1, TailConcat
    <2>3. Reading(Len(typed), queue \o wire, Len(queue), ss, i, p)
        BY DEF Reads
    <2> QED
        BY <1>1, <2>2, <2>3, Take DEF ReadsNext
<1>3. Size(ss, i) \in Nat
    BY <1>1, SizeType DEF Matches
<1>4. CASE p < Size(ss, i)
    <2>1. i2 = i /\ p2 = p + 1
        BY <1>2, <1>4 DEF Follows
    <2>2. p # Size(ss, i)
        BY <1>3, <1>4
    <2>3. Head(queue) = ss[i2].bytes[p2]
        BY <1>2 DEF IsByte
    <2> QED
        BY <1>2, <1>4, <2>1, <2>2, <2>3
<1>5. CASE p = Size(ss, i)
    <2>1. ~ (p < Size(ss, i)) /\ p >= Size(ss, i)
        BY <1>3, <1>5
    <2>2. i2 = i + 1 /\ p2 = 1
        BY <1>2, <2>1 DEF Follows
    <2>3. Head(queue) = ss[i2].bytes[p2] /\ i2 \in 1 .. Len(typed)
        BY <1>2 DEF IsByte
    <2>4. i2 <= Len(typed)
        BY <1>1, <2>3
    <2> QED
        BY <1>2, <2>1, <2>2, <2>3, <2>4
<1> QED
    BY <1>3, <1>4, <1>5

LEMMA ReadsOn ==
    ASSUME UNCHANGED <<typed, wire>>, NEW ss, NEW i, NEW p,
           \/ queue' = queue /\ Reads(ss, i, p)
           \/ queue' = Tail(queue) /\ ReadsNext(ss, i, p)
    PROVE  Reads(ss, i, p)'
BY DEF Reads, ReadsNext

\* Between two keys, the byte read is the first of the next one.
LEMMA FirstTaken ==
    ASSUME InputType, NEW ss, NEW i, NEW p, Matches(ss), Parsed(ss, i, p), at = "read",
           NEW b, ByteRead(b), UNCHANGED <<typed, wire>>, NEW n, n = Len(keys) + 1
    PROVE  /\ n <= Len(typed)
           /\ Reads(ss, n, 1)'
           /\ pending' = "none"
           /\ b = ss[n].bytes[1]
<1>1. Len(typed) \in Nat /\ Len(keys) \in Nat /\ Len(keys) <= Len(typed)
    BY Lengths DEF Matches
<1>2. Between(ss, i, p) /\ Reads(ss, i, p)
    BY DEF Parsed
<1>3. CASE pending # "none"
    <2>1. queue' = queue /\ pending' = "none" /\ b = pending
        BY <1>3 DEF ByteRead
    <2>2. i = n /\ i <= Len(typed) /\ p = 1 /\ pending = ss[i].bytes[1]
        BY <1>2, <1>3 DEF Between
    <2>3. Reads(ss, n, 1)'
        BY <1>2, <2>1, <2>2, ReadsOn
    <2> QED
        BY <2>1, <2>2, <2>3
<1>4. CASE pending = "none"
    <2>1. queue # <<>> /\ b = Head(queue) /\ queue' = Tail(queue) /\ pending' = "none"
        BY <1>4 DEF ByteRead
    <2>2. i = Len(keys) /\ p = Size(ss, i)
        BY <1>2, <1>4 DEF Between
    <2>3. i \in 0 .. Len(typed) /\ p \in Nat /\ p <= Size(ss, i)
        <3>1. i \in 0 .. Len(typed)
            BY <1>1, <2>2
        <3>2. Size(ss, i) \in Nat
            BY <1>1, <3>1, SizeType DEF Matches
        <3> QED
            BY <2>2, <3>1, <3>2
    <2>4. ReadsNext(ss, n, 1) /\ n <= Len(typed) /\ Head(queue) = ss[n].bytes[1]
        <3>1. i + 1 = n
            BY <2>2
        <3> QED
            BY <1>2, <2>1, <2>2, <2>3, <3>1, Taken
    <2>5. Reads(ss, n, 1)'
        BY <2>1, <2>4, ReadsOn
    <2> QED
        BY <2>1, <2>4, <2>5
<1> QED
    BY <1>3, <1>4

LEMMA KeyFirst == ASSUME Known(Nat), KeyInv, InputType', FirstByte PROVE KeyInv'
<1>1. InputType /\ UNCHANGED <<typed, wire>>
    BY DEF KeyInv, FirstByte, console
<1>2. PICK ss, i, p : Matches(ss) /\ Parsed(ss, i, p)
    BY DEF KeyInv
<1>3. at = "read"
    BY DEF FirstByte
<1>0. PICK n : n = Len(keys) + 1
    OBVIOUS
<1>4. CASE ByteRead(ESC) /\ Wait("esc")
    <2>1. /\ n <= Len(typed) /\ Reads(ss, n, 1)'
          /\ pending' = "none" /\ ESC = ss[n].bytes[1]
        BY <1>0, <1>1, <1>2, <1>3, <1>4, FirstTaken
    <2>2. at' = "esc" /\ keys' = keys
        BY <1>4 DEF Wait
    <2>3. Matches(ss)'
        BY <1>1, <1>2, <2>2 DEF Matches
    <2>4. Within(ss, n, 1)'
        BY <1>0, <1>1, <2>1, <2>2 DEF Within
    <2> QED
        BY <2>1, <2>2, <2>3, <2>4 DEF KeyInv, Parsed
<1>5. ASSUME NEW b, b # ESC, ByteRead(b), Return(b) PROVE KeyInv'
    <2>1. /\ n <= Len(typed) /\ Reads(ss, n, 1)'
          /\ pending' = "none" /\ b = ss[n].bytes[1]
        BY <1>0, <1>1, <1>2, <1>3, <1>5, FirstTaken
    <2>2. ss[n] \in Strokes /\ Size(ss, n) = Len(ss[n].bytes)
        <3>1. n \in 1 .. Len(typed) /\ Len(typed) \in Nat /\ n # 0
            BY <1>0, <1>1, <2>1, Lengths
        <3> QED
            BY <1>2, <3>1 DEF Matches, Size
    <2>3. ss[n].key = b /\ Size(ss, n) = 1
        BY <1>5, <2>1, <2>2, KnownBytes
    <2>4. Return(ss[n].key)
        BY <1>5, <2>3
    <2> QED
        BY <1>0, <1>1, <1>2, <2>1, <2>3, <2>4, Returned
<1>6. CASE IntrRead /\ Wait("top")
    BY <1>1, <1>3, <1>6, Frame DEF IntrRead, Wait
<1>7. CASE EofRead /\ at' = "over" /\ UNCHANGED <<param, guard, keys>>
    BY <1>1, <1>3, <1>7, Frame DEF EofRead, Nothing
<1> QED
    BY <1>4, <1>5, <1>6, <1>7 DEF FirstByte

\* What is known within a key.
LEMMA Inside ==
    ASSUME InputType, NEW ss, NEW i, NEW p, Matches(ss), Parsed(ss, i, p),
           at \in {"esc", "csi", "ss3"}
    PROVE  /\ Within(ss, i, p) /\ Reads(ss, i, p)
           /\ pending = "none" /\ i = Len(keys) + 1 /\ i <= Len(typed)
           /\ i \in 0 .. Len(typed) /\ ss[i] \in Strokes
           /\ Size(ss, i) = Len(ss[i].bytes) /\ Size(ss, i) \in Nat \ {0}
<1>1. Within(ss, i, p) /\ Reads(ss, i, p)
    BY DEF Parsed
<1>2. pending = "none" /\ i = Len(keys) + 1 /\ i <= Len(typed)
    BY <1>1 DEF Within
<1>3. i \in 0 .. Len(typed) /\ i # 0 /\ Len(typed) \in Nat
    BY <1>2, Lengths
<1>4. ss[i] \in Strokes /\ Size(ss, i) = Len(ss[i].bytes) /\ Size(ss, i) \in Nat \ {0}
    BY <1>3, SizeType DEF Matches
<1> QED
    BY <1>1, <1>2, <1>3, <1>4

\* An empty read in the middle of a sequence: the rest of it is still to arrive.
LEMMA KeepsComing ==
    ASSUME InputType, NEW ss, NEW i, NEW p, Reads(ss, i, p),
           Matches(ss), p < Size(ss, i), i \in 0 .. Len(typed)
    PROVE  queue # <<>> \/ wire # <<>>
<1>1. Len(typed) \in Nat /\ Size(ss, i) \in Nat
    BY Lengths, SizeType DEF Matches
<1>2. SUFFICES ASSUME queue = <<>>, wire = <<>> PROVE FALSE
    OBVIOUS
<1>3. queue \o wire = <<>>
    BY <1>2
<1>4. p = Size(ss, Len(typed)) /\ i = Len(typed)
    BY <1>1, <1>3, Drained DEF Reads
<1> QED
    BY <1>1, <1>4

\* read_key gives up a sequence whose end has not come: the terminal has gone in
\* the middle of its last key.
LEMMA CutOff ==
    ASSUME InputType, NEW ss, NEW i, NEW p, Matches(ss), Parsed(ss, i, p),
           at \in {"esc", "csi", "ss3"}, EofRead, ~ misled', wire # <<>>,
           UNCHANGED console, NEW key \in {"ESC", "NONE"}, Return(key)
    PROVE  Cut'
<1>1. Reads(ss, i, p) /\ i = Len(keys) + 1 /\ Len(typed) \in Nat /\ Len(keys) \in Nat
    BY Inside, Lengths
<1>2. pending = "none" /\ queue = <<>> /\ pending' = "none" /\ queue' = <<>> /\ gone
    BY DEF EofRead, Nothing
<1>3. i = Len(typed)
    <2>1. Reading(Len(typed), queue \o wire, 0, ss, i, p)
        BY <1>1, <1>2, EmptySeq DEF Reads
    <2> QED
        BY <1>1, <2>1, Halted
<1>4. keys = SubSeq(typed, 1, Len(typed) - 1)
    <2>1. Len(typed) - 1 = Len(keys)
        BY <1>1, <1>3
    <2> QED
        BY <2>1, KeysPrefix
<1>5. at' = "top" /\ keys' = Append(SubSeq(typed', 1, Len(typed') - 1), key)
    BY <1>4 DEF Return, console
<1> QED
    BY <1>2, <1>5 DEF Cut, console

LEMMA KeySecond ==
    ASSUME Known(Nat), KeyInv, InputType', ~ misled', SecondByte PROVE KeyInv' \/ Cut'
<1>1. InputType /\ UNCHANGED <<typed, wire>> /\ UNCHANGED console /\ at = "esc"
    BY DEF KeyInv, SecondByte, console
<1>2. PICK ss, i, p : Matches(ss) /\ Parsed(ss, i, p)
    BY DEF KeyInv
<1>3. /\ Within(ss, i, p) /\ Reads(ss, i, p)
      /\ pending = "none" /\ i = Len(keys) + 1 /\ i <= Len(typed)
      /\ i \in 0 .. Len(typed) /\ ss[i] \in Strokes
      /\ Size(ss, i) = Len(ss[i].bytes) /\ Size(ss, i) \in Nat \ {0}
    BY <1>1, <1>2, Inside
<1>4. p = 1 /\ ss[i].bytes[1] = ESC /\ Len(typed) \in Nat
    BY <1>1, <1>3, Lengths DEF Within
<1>5. /\ Size(ss, i) = 1 => LoneEsc(ss[i]) /\ ss[i].key = "ESC"
      /\ Size(ss, i) # 1 => CsiBytes(ss[i]) \/ Ss3Bytes(ss[i])
    BY <1>3, <1>4, KnownBytes DEF LoneEsc
<1>6. ASSUME queue # <<>>
      PROVE  /\ Size(ss, i) # 1 =>
                   /\ ReadsNext(ss, i, 2)
                   /\ Head(queue) = ss[i].bytes[2]
             /\ Size(ss, i) = 1 =>
                   /\ ReadsNext(ss, i + 1, 1)
                   /\ i + 1 <= Len(typed) /\ ss[i + 1] \in Strokes
                   /\ Head(queue) = ss[i + 1].bytes[1]
                   /\ Head(queue) \notin {"[", "O", "none"}
    <2>1. p \in Nat /\ p <= Size(ss, i) /\ p + 1 = 2 /\ (Size(ss, i) # 1 => p < Size(ss, i))
        BY <1>3, <1>4
    <2>2. /\ p < Size(ss, i) => /\ ReadsNext(ss, i, p + 1)
                                /\ Head(queue) = ss[i].bytes[p + 1]
          /\ p = Size(ss, i) => /\ ReadsNext(ss, i + 1, 1)
                                /\ i + 1 <= Len(typed) /\ Head(queue) = ss[i + 1].bytes[1]
        BY <1>1, <1>2, <1>3, <1>6, <2>1, Taken
    <2>3. CASE Size(ss, i) # 1
        BY <2>1, <2>2, <2>3
    <2>4. CASE Size(ss, i) = 1
        <3>1. /\ ReadsNext(ss, i + 1, 1)
              /\ i + 1 <= Len(typed) /\ Head(queue) = ss[i + 1].bytes[1]
            BY <1>4, <2>2, <2>4
        <3>2. i + 1 \in 1 .. Len(typed)
            BY <1>3, <1>4, <3>1
        <3>3. ss[i + 1] \in Strokes
            BY <1>2, <3>2 DEF Matches
        <3>4. LoneEsc(ss[i])
            BY <1>5, <2>4
        <3>5. ss[i + 1].bytes[1] \notin {"[", "O"}
            BY <1>3, <3>3, <3>4, AfterEscape
        <3>6. ss[i + 1].bytes[1] # "none"
            BY <3>3, KnownBytes DEF ESC
        <3> QED
            BY <2>4, <3>1, <3>3, <3>5, <3>6
    <2> QED
        BY <2>3, <2>4
<1>7. ASSUME NEW b \in {"[", "O"}, ByteRead(b)
      PROVE  /\ pending' = "none" /\ Reads(ss, i, 2)'
             /\ b = ss[i].bytes[2] /\ Size(ss, i) # 1
    <2>1. queue # <<>> /\ b = Head(queue) /\ queue' = Tail(queue) /\ pending' = "none"
        BY <1>3, <1>7 DEF ByteRead
    <2>2. Size(ss, i) # 1 /\ ReadsNext(ss, i, 2) /\ b = ss[i].bytes[2]
        BY <1>6, <1>7, <2>1
    <2> QED
        BY <1>1, <2>1, <2>2, ReadsOn
<1>8. ASSUME keys' = keys, pending' = "none", Within(ss, i, 2)', at' \in {"csi", "ss3"},
             Reads(ss, i, 2)'
      PROVE  KeyInv'
    <2>1. Matches(ss)'
        BY <1>1, <1>2, <1>8 DEF Matches
    <2> QED
        BY <1>1, <1>8, <2>1 DEF KeyInv, Parsed
<1>9. CASE ByteRead("[") /\ at' = "csi" /\ param' = 0 /\ guard' = 0 /\ UNCHANGED keys
    <2>1. /\ pending' = "none" /\ Reads(ss, i, 2)'
          /\ "[" = ss[i].bytes[2] /\ Size(ss, i) # 1
        BY <1>7, <1>9
    <2>2. CsiBytes(ss[i])
        BY <1>5, <2>1 DEF Ss3Bytes
    <2>3. /\ Len(ss[i].bytes) \in 3 .. SeqMax + 2
          /\ \E val \in [2 .. Len(ss[i].bytes) - 1 -> Nat] : Param(ss[i], val) /\ CsiKey(ss[i], val)
        BY <2>2 DEF CsiBytes, Csi
    <2>4. PICK val \in [2 .. Len(ss[i].bytes) - 1 -> Nat] :
              Param(ss[i], val) /\ CsiKey(ss[i], val)
        BY <2>3
    <2>5. val[2] = 0 /\ 2 < Len(ss[i].bytes)
        <3>1. val[2] = 0
            BY <2>4 DEF Param
        <3>2. 2 < Len(ss[i].bytes)
            BY <2>3, Limits
        <3> QED
            BY <3>1, <3>2
    <2>6. /\ \E v \in [2 .. Len(ss[i].bytes) - 1 -> Nat] :
                Param(ss[i], v) /\ CsiKey(ss[i], v) /\ param' = v[2]
          /\ guard' + 2 = 2
        BY <1>9, <2>4, <2>5
    <2>7. InCsi(ss[i], 2)'
        BY <2>2, <2>5, <2>6 DEF InCsi
    <2>8. Within(ss, i, 2)'
        BY <1>1, <1>3, <1>9, <2>1, <2>7 DEF Within
    <2> QED
        BY <1>8, <1>9, <2>1, <2>8
<1>10. CASE ByteRead("O") /\ Wait("ss3")
    <2>1. /\ pending' = "none" /\ Reads(ss, i, 2)'
          /\ "O" = ss[i].bytes[2] /\ Size(ss, i) # 1
        BY <1>7, <1>10
    <2>2. Ss3Bytes(ss[i])
        BY <1>5, <2>1 DEF CsiBytes
    <2>3. at' = "ss3" /\ keys' = keys
        BY <1>10 DEF Wait
    <2>4. Within(ss, i, 2)'
        BY <1>1, <1>3, <2>1, <2>2, <2>3 DEF Within
    <2> QED
        BY <1>8, <2>1, <2>3, <2>4
<1>11. ASSUME NEW b, b \notin {"[", "O"}, queue # <<>>, Head(queue) = b,
              queue' = Tail(queue), PushBack(b), Return("ESC")
       PROVE  KeyInv'
    <2>1. Size(ss, i) = 1
        <3> SUFFICES ASSUME Size(ss, i) # 1 PROVE FALSE
            OBVIOUS
        <3>1. ss[i].bytes[2] \in {"[", "O"}
            BY <1>5 DEF CsiBytes, Ss3Bytes
        <3> QED
            BY <1>6, <1>11, <3>1
    <2>2. /\ Reads(ss, i + 1, 1)' /\ i + 1 <= Len(typed)
          /\ pending' = ss[i + 1].bytes[1] /\ pending' # "none"
        BY <1>1, <1>6, <1>11, <2>1, ReadsOn DEF PushBack
    <2>3. Return(ss[i].key)
        BY <1>5, <1>11, <2>1
    <2> QED
        BY <1>1, <1>2, <1>3, <2>2, <2>3, Returned
<1>12. CASE ReadOn
    BY <1>1, <1>12, Frame DEF ReadOn, IntrRead
<1>13. CASE EofRead /\ Return("ESC") /\ wire # <<>>
    BY <1>1, <1>2, <1>13, CutOff
<1>14. CASE EofRead /\ Return("ESC") /\ wire = <<>>
    <2>1. queue = <<>> /\ queue' = queue /\ pending' = "none"
        BY <1>14 DEF EofRead, Nothing
    <2>2. Size(ss, i) = 1
        <3>1. ~ (p < Size(ss, i))
            BY <1>1, <1>2, <1>3, <1>14, <2>1, KeepsComing
        <3> QED
            BY <1>3, <1>4, <3>1
    <2>3. Return(ss[i].key)
        BY <1>5, <1>14, <2>2
    <2>4. Reads(ss, i, 1)' /\ 1 = Size(ss, i)
        BY <1>1, <1>3, <1>4, <2>1, <2>2, ReadsOn
    <2> QED
        BY <1>1, <1>2, <1>3, <2>1, <2>3, <2>4, Returned
<1> QED
    BY <1>9, <1>10, <1>11, <1>12, <1>13, <1>14 DEF SecondByte

\* What a byte after the bracket is: a part of the parameter, or the last byte.
LEMMA CsiNext ==
    ASSUME NEW s \in Strokes, Csi(s, Nat), NEW val \in [2 .. Len(s.bytes) - 1 -> Nat],
           Param(s, val), CsiKey(s, val), NEW p \in 2 .. Len(s.bytes) - 1
    PROVE  /\ s.bytes[p + 1] \in Parameters =>
                 /\ p + 1 < Len(s.bytes) /\ p - 1 < SeqMax
                 /\ val[p + 1] = IF s.bytes[p + 1] = ";" THEN val[p]
                                 ELSE 10 * val[p] + Digit[s.bytes[p + 1]]
           /\ s.bytes[p + 1] \notin Parameters =>
                 p + 1 = Len(s.bytes) /\ s.key = FinalKey(s.bytes[p + 1], val[p])
<1>1. Len(s.bytes) \in 3 .. SeqMax + 2
    BY DEF Csi
<1>3. CASE p + 1 = Len(s.bytes)
    <2>1. Len(s.bytes) - 1 = p
        BY <1>1, <1>3
    <2>2. s.bytes[p + 1] \notin Parameters /\ s.key = FinalKey(s.bytes[p + 1], val[p])
        BY <1>3, <2>1 DEF CsiKey
    <2> QED
        BY <1>3, <2>2
<1>4. CASE p + 1 # Len(s.bytes)
    <2>1. p + 1 \in 3 .. Len(s.bytes) - 1 /\ (p + 1) - 1 = p /\ p + 1 < Len(s.bytes)
          /\ p - 1 < SeqMax
        BY <1>1, <1>4, Limits
    <2>2. /\ s.bytes[p + 1] \in Parameters
          /\ val[p + 1] = IF s.bytes[p + 1] = ";" THEN val[(p + 1) - 1]
                          ELSE 10 * val[(p + 1) - 1] + Digit[s.bytes[p + 1]]
        BY <2>1 DEF Param
    <2> QED
        BY <2>1, <2>2
<1> QED
    BY <1>3, <1>4

LEMMA GuardPlace ==
    \A g \in 0 .. SeqMax : \A p :
        p = g + 2 /\ p - 1 < SeqMax => g + 1 < SeqMax /\ p + 1 = g + 1 + 2
    BY Limits

LEMMA KeyCsi ==
    ASSUME Known(Nat), KeyInv, InputType', ~ misled', CsiByte PROVE KeyInv' \/ Cut'
<1>1. InputType /\ UNCHANGED <<typed, wire>> /\ UNCHANGED console /\ at = "csi"
    BY DEF KeyInv, CsiByte, console
<1>2. PICK ss, i, p : Matches(ss) /\ Parsed(ss, i, p)
    BY DEF KeyInv
<1>3. /\ Within(ss, i, p) /\ Reads(ss, i, p)
      /\ pending = "none" /\ i = Len(keys) + 1 /\ i <= Len(typed)
      /\ i \in 0 .. Len(typed) /\ ss[i] \in Strokes
      /\ Size(ss, i) = Len(ss[i].bytes) /\ Size(ss, i) \in Nat \ {0}
    BY <1>1, <1>2, Inside
<1>4. InCsi(ss[i], p)
    BY <1>1, <1>3 DEF Within
<1>5. /\ CsiBytes(ss[i]) /\ Csi(ss[i], Nat) /\ guard \in 0 .. SeqMax
      /\ p = guard + 2 /\ p \in 2 .. Len(ss[i].bytes) - 1 /\ p < Size(ss, i) /\ p \in Nat
      /\ p <= Size(ss, i)
    <2>1. guard \in 0 .. SeqMax
        BY <1>1 DEF InputType, TypeOK
    <2>2. CsiBytes(ss[i]) /\ p = guard + 2 /\ p < Len(ss[i].bytes)
        BY <1>4 DEF InCsi
    <2>3. Csi(ss[i], Nat)
        BY <2>2 DEF CsiBytes
    <2>4. Len(ss[i].bytes) \in Nat
        BY <1>3
    <2> QED
        BY <1>3, <2>1, <2>2, <2>3, <2>4, Limits
<1>6. PICK val \in [2 .. Len(ss[i].bytes) - 1 -> Nat] :
          Param(ss[i], val) /\ CsiKey(ss[i], val) /\ param = val[p]
    BY <1>4 DEF InCsi
<1> DEFINE c == ss[i].bytes[p + 1]
<1>7. /\ c \in Parameters =>
             /\ p + 1 < Len(ss[i].bytes) /\ p - 1 < SeqMax
             /\ val[p + 1] = IF c = ";" THEN param ELSE 10 * param + Digit[c]
      /\ c \notin Parameters => p + 1 = Len(ss[i].bytes) /\ ss[i].key = FinalKey(c, param)
    BY <1>3, <1>5, <1>6, CsiNext
<1> HIDE DEF c
<1>8. ASSUME NEW b, ByteRead(b)
      PROVE  /\ pending' = "none" /\ Reads(ss, i, p + 1)' /\ b = c
    <2>1. queue # <<>> /\ b = Head(queue) /\ queue' = Tail(queue) /\ pending' = "none"
        BY <1>3, <1>8 DEF ByteRead
    <2>2. ReadsNext(ss, i, p + 1) /\ b = c
        BY <1>1, <1>2, <1>3, <1>5, <2>1, Taken DEF c
    <2> QED
        BY <1>1, <2>1, <2>2, ReadsOn
<1>9. ASSUME NEW d \in Parameters, ByteRead(d),
             param' = IF d = ";" THEN param ELSE 10 * param + Digit[d],
             guard' = guard + 1,
             \/ guard + 1 < SeqMax /\ at' = "csi" /\ UNCHANGED keys
             \/ guard + 1 >= SeqMax
      PROVE  KeyInv'
    <2>1. pending' = "none" /\ Reads(ss, i, p + 1)' /\ d = c
        BY <1>8, <1>9
    <2>2. /\ p + 1 < Len(ss[i].bytes) /\ p - 1 < SeqMax
          /\ val[p + 1] = IF d = ";" THEN param ELSE 10 * param + Digit[d]
        BY <1>7, <1>9, <2>1
    <2>3. at' = "csi" /\ keys' = keys /\ p + 1 = guard' + 2
        <3>1. guard + 1 < SeqMax /\ guard' = guard + 1 /\ p + 1 = guard + 1 + 2
            <4>1. guard' = guard + 1
                BY <1>9
            <4>2. p - 1 < SeqMax
                BY <2>2
            <4>3. guard \in 0 .. SeqMax
                BY <1>5
            <4>4. p = guard + 2
                BY <1>5
            <4> QED
                BY <4>1, <4>2, <4>3, <4>4, GuardPlace, Zenon
        <3>2. ~ (guard + 1 >= SeqMax)
            BY <1>5, <3>1, Limits
        <3> QED
            BY <1>9, <3>1, <3>2
    <2>4. param' = val[p + 1]
        BY <1>9, <2>2
    <2>5. \E v \in [2 .. Len(ss[i].bytes) - 1 -> Nat] :
              Param(ss[i], v) /\ CsiKey(ss[i], v) /\ param' = v[p + 1]
        BY <1>6, <2>4
    <2>6. InCsi(ss[i], p + 1)'
        BY <1>5, <2>2, <2>3, <2>5 DEF InCsi
    <2>7. Within(ss, i, p + 1)' /\ Matches(ss)'
        BY <1>1, <1>2, <1>3, <1>9, <2>1, <2>3, <2>6 DEF Within, Matches
    <2> QED
        BY <1>1, <2>1, <2>3, <2>7 DEF KeyInv, Parsed
<1>10. ASSUME NEW b, b \notin Parameters, ByteRead(b), Return(FinalKey(b, param))
       PROVE  KeyInv'
    <2>1. pending' = "none" /\ Reads(ss, i, p + 1)' /\ b = c
        BY <1>8, <1>10
    <2>2. p + 1 = Size(ss, i) /\ FinalKey(b, param) = ss[i].key
        BY <1>3, <1>7, <1>10, <2>1
    <2>3. Reads(ss, i, Size(ss, i))' /\ Return(ss[i].key)
        BY <1>10, <2>1, <2>2
    <2> QED
        BY <1>1, <1>2, <1>3, <2>1, <2>2, <2>3, Returned
<1>11. CASE ReadOn
    BY <1>1, <1>11, Frame DEF ReadOn, IntrRead
<1>12. CASE EofRead /\ Return("ESC")
    <2>1. queue = <<>>
        BY <1>12 DEF EofRead, Nothing
    <2>2. wire # <<>>
        BY <1>1, <1>2, <1>3, <1>5, <2>1, KeepsComing
    <2> QED
        BY <1>1, <1>2, <1>12, <2>2, CutOff
<1> QED
    BY <1>9, <1>10, <1>11, <1>12 DEF CsiByte

LEMMA KeySs3 ==
    ASSUME Known(Nat), KeyInv, InputType', ~ misled', Ss3Byte PROVE KeyInv' \/ Cut'
<1>1. InputType /\ UNCHANGED <<typed, wire>> /\ UNCHANGED console /\ at = "ss3"
    BY DEF KeyInv, Ss3Byte, console
<1>2. PICK ss, i, p : Matches(ss) /\ Parsed(ss, i, p)
    BY DEF KeyInv
<1>3. /\ Within(ss, i, p) /\ Reads(ss, i, p)
      /\ pending = "none" /\ i = Len(keys) + 1 /\ i <= Len(typed)
      /\ i \in 0 .. Len(typed) /\ ss[i] \in Strokes
      /\ Size(ss, i) = Len(ss[i].bytes) /\ Size(ss, i) \in Nat \ {0}
    BY <1>1, <1>2, Inside
<1>4. p = 2 /\ Ss3Bytes(ss[i])
    BY <1>1, <1>3 DEF Within
<1>5. /\ Size(ss, i) = 3 /\ p < Size(ss, i) /\ p <= Size(ss, i) /\ p \in Nat /\ p + 1 = 3
      /\ ss[i].key = LetterKey(ss[i].bytes[3])
    BY <1>3, <1>4 DEF Ss3Bytes
<1>6. ASSUME NEW b, ByteRead(b), Return(LetterKey(b)) PROVE KeyInv'
    <2>1. queue # <<>> /\ b = Head(queue) /\ queue' = Tail(queue) /\ pending' = "none"
        BY <1>3, <1>6 DEF ByteRead
    <2>2. Reads(ss, i, p + 1)' /\ b = ss[i].bytes[p + 1]
        <3>1. ReadsNext(ss, i, p + 1) /\ b = ss[i].bytes[p + 1]
            BY <1>1, <1>2, <1>3, <1>5, <2>1, Taken
        <3> QED
            BY <1>1, <2>1, <3>1, ReadsOn
    <2>3. Reads(ss, i, Size(ss, i))' /\ b = ss[i].bytes[3]
        BY <1>5, <2>2
    <2>4. Return(ss[i].key)
        BY <1>5, <1>6, <2>3
    <2> QED
        BY <1>1, <1>2, <1>3, <2>1, <2>3, <2>4, Returned
<1>7. CASE ReadOn
    BY <1>1, <1>7, Frame DEF ReadOn, IntrRead
<1>8. CASE EofRead /\ Return("NONE")
    <2>1. queue = <<>>
        BY <1>8 DEF EofRead, Nothing
    <2>2. wire # <<>>
        BY <1>1, <1>2, <1>3, <1>5, <2>1, KeepsComing
    <2> QED
        BY <1>1, <1>2, <1>8, <2>2, CutOff
<1> QED
    BY <1>6, <1>7, <1>8 DEF Ss3Byte

LEMMA KeyPress == ASSUME NEW s \in Strokes, KeyInv, InputType', Press(s) PROVE KeyInv'
<1>1. /\ InputType /\ typed' = Append(typed, s.key) /\ wire = <<>>
      /\ queue' = Append(queue, Head(s.bytes)) /\ wire' = Tail(s.bytes)
      /\ at' = at /\ pending' = pending /\ param' = param /\ guard' = guard /\ keys' = keys
    BY DEF KeyInv, Press, parser
<1>2. PICK ss, i, p : Matches(ss) /\ Parsed(ss, i, p)
    BY DEF KeyInv
<1>0. PICK n : n = Len(typed)
    OBVIOUS
<1>3. n \in Nat /\ Len(keys) \in Nat /\ queue \in Seq(Bytes) /\ typed \in Seq(Pressable)
    BY <1>0, <1>1, Lengths
<1>4. /\ ss \in [1 .. n -> Strokes] /\ \A j \in 1 .. n : typed[j] = ss[j].key
      /\ Len(keys) <= n /\ \A j \in 1 .. Len(keys) : keys[j] = typed[j]
    BY <1>0, <1>2 DEF Matches
<1>5. PICK ss2 : /\ ss2 \in [1 .. n + 1 -> Strokes] /\ ss2[n + 1] = s
                 /\ \A j \in 1 .. n : ss2[j] = ss[j]
    <2> DEFINE longer == [j \in 1 .. n + 1 |-> IF j <= n THEN ss[j] ELSE s]
    <2>1. /\ longer \in [1 .. n + 1 -> Strokes] /\ longer[n + 1] = s
          /\ \A j \in 1 .. n : longer[j] = ss[j]
        BY <1>3, <1>4
    <2> QED
        BY <2>1
<1>6. /\ Len(typed') = n + 1 /\ typed'[n + 1] = s.key
      /\ \A j \in 1 .. n : typed'[j] = typed[j]
    BY <1>0, <1>1, <1>3, StrokeType, AppendProperties
<1>7. Matches(ss2)'
    <2>1. \A j \in 1 .. n + 1 : typed'[j] = ss2[j].key
        <3> SUFFICES ASSUME NEW j \in 1 .. n + 1 PROVE typed'[j] = ss2[j].key
            OBVIOUS
        <3>1. j \in 1 .. n \/ j = n + 1
            BY <1>3
        <3> QED
            BY <1>4, <1>5, <1>6, <3>1
    <2>2. \A j \in 1 .. Len(keys) : keys[j] = typed'[j]
        <3> SUFFICES ASSUME NEW j \in 1 .. Len(keys) PROVE keys[j] = typed'[j]
            OBVIOUS
        <3>1. j \in 1 .. n
            BY <1>3, <1>4
        <3> QED
            BY <1>4, <1>6, <3>1
    <2>3. Len(keys) <= n + 1
        BY <1>3, <1>4
    <2> QED
        BY <1>1, <1>5, <1>6, <2>1, <2>2, <2>3 DEF Matches
<1>8. Reads(ss2, i, p)'
    <2>1. Reading(n, queue, Len(queue), ss, i, p)
        <3>1. queue \o wire = queue
            BY <1>1, <1>3, ConcatEmptySeq
        <3> QED
            BY <1>0, <1>2, <3>1 DEF Parsed, Reads
    <2>2. Reading(n + 1, queue \o s.bytes, Len(queue) + 1, ss2, i, p)
        BY <1>3, <1>4, <1>5, <2>1, Extend
    <2>3. s.bytes \in Seq(Bytes) /\ s.bytes # <<>> /\ Head(s.bytes) \in Bytes
        BY InputAssumption, HeadTailProperties
    <2>4. queue' \o wire' = queue \o s.bytes
        BY <1>1, <1>3, <2>3, AppendConcat
    <2>5. Len(queue') = Len(queue) + 1
        BY <1>1, <1>3, <2>3, AppendProperties
    <2> QED
        BY <1>6, <2>2, <2>4, <2>5 DEF Reads
<1>9. \A j \in 0 .. n : Size(ss2, j) = Size(ss, j)
    BY <1>5 DEF Size
<1>10. CASE at \in {"top", "read", "over"}
    <2>1. Between(ss, i, p)
        BY <1>2, <1>10 DEF Parsed
    <2>2. i \in 0 .. n
        BY <1>0, <1>3, <1>4, <2>1 DEF Between
    <2>3. Between(ss2, i, p)'
        <3>1. CASE pending = "none" /\ i = Len(keys) /\ p = Size(ss, i)
            BY <1>1, <1>9, <2>2, <3>1 DEF Between
        <3>2. CASE /\ at # "over" /\ i = Len(keys) + 1 /\ i <= n /\ p = 1
                   /\ pending # "none" /\ pending = ss[i].bytes[1]
            <4>1. i \in 1 .. n /\ i <= n + 1
                BY <1>3, <3>2
            <4>2. ss2[i] = ss[i]
                BY <1>5, <4>1
            <4> QED
                BY <1>1, <1>6, <3>2, <4>1, <4>2 DEF Between
        <3> QED
            BY <1>0, <2>1, <3>1, <3>2 DEF Between
    <2> QED
        BY <1>1, <1>7, <1>8, <1>10, <2>3 DEF KeyInv, Parsed
<1>11. CASE at \notin {"top", "read", "over"}
    <2>1. Within(ss, i, p)
        BY <1>2, <1>11 DEF Parsed
    <2>2. i \in 1 .. n /\ i <= n + 1
        BY <1>0, <1>3, <2>1 DEF Within
    <2>3. ss2[i] = ss[i]
        BY <1>5, <2>2
    <2>4. Within(ss2, i, p)'
        BY <1>1, <1>6, <2>1, <2>2, <2>3 DEF Within, InCsi
    <2> QED
        BY <1>1, <1>7, <1>8, <1>11, <2>4 DEF KeyInv, Parsed
<1> QED
    BY <1>10, <1>11

\* A byte of it arrives.
LEMMA KeyArrive == ASSUME KeyInv, InputType', Arrive PROVE KeyInv'
<1>1. /\ InputType /\ wire # <<>> /\ UNCHANGED <<typed, at, pending, param, guard, keys>>
      /\ queue' = Append(queue, Head(wire)) /\ wire' = Tail(wire)
    BY DEF KeyInv, Arrive, parser
<1>2. PICK ss, i, p : Matches(ss) /\ Parsed(ss, i, p)
    BY DEF KeyInv
<1>3. Len(typed) \in Nat /\ queue \in Seq(Bytes) /\ wire \in Seq(Bytes)
    BY <1>1 DEF InputType
<1>4. Reads(ss, i, p)'
    <2>1. Head(wire) \in Bytes /\ Len(wire) \in Nat \ {0}
        BY <1>1, <1>3, HeadTailProperties, EmptySeq
    <2>2. queue' \o wire' = queue \o wire /\ Len(queue') = Len(queue) + 1
        BY <1>1, <1>3, <2>1, AppendConcat, AppendProperties
    <2>3. /\ queue \o wire \in Seq(Bytes) /\ Len(queue) \in Nat
          /\ Len(queue) < Len(queue \o wire)
        BY <1>3, <2>1, ConcatProperties
    <2>4. Reading(Len(typed), queue \o wire, Len(queue), ss, i, p)
        BY <1>2 DEF Parsed, Reads
    <2>5. Reading(Len(typed), queue \o wire, Len(queue) + 1, ss, i, p)
        BY <1>3, <2>3, <2>4, Arrives
    <2> QED
        BY <1>1, <2>2, <2>5 DEF Reads
<1>5. Matches(ss)'
    BY <1>1, <1>2 DEF Matches
<1>6. CASE at \in {"top", "read", "over"}
    <2>1. Between(ss, i, p)
        BY <1>2, <1>6 DEF Parsed
    <2>2. Between(ss, i, p)'
        BY <1>1, <2>1 DEF Between
    <2> QED
        BY <1>1, <1>4, <1>5, <1>6, <2>2 DEF KeyInv, Parsed
<1>7. CASE at \notin {"top", "read", "over"}
    <2>1. Within(ss, i, p)
        BY <1>2, <1>7 DEF Parsed
    <2>2. Within(ss, i, p)'
        BY <1>1, <2>1 DEF Within, InCsi
    <2> QED
        BY <1>1, <1>4, <1>5, <1>7, <2>2 DEF KeyInv, Parsed
<1> QED
    BY <1>6, <1>7

\* Nothing more comes of a terminal that has gone.
LEMMA CutStep == ASSUME Cut, [Next]_vars PROVE Cut'
<1>1. /\ gone /\ queue = <<>> /\ pending = "none" /\ at \in {"top", "read", "over"}
    BY DEF Cut
<1>2. ASSUME UNCHANGED <<typed, wire, gone, queue, pending, keys>>,
             at' \in {"top", "read", "over"}
      PROVE  Cut'
    BY <1>2 DEF Cut
<1>3. CASE CheckSignal
    BY <1>2, <1>3 DEF CheckSignal, console
<1>4. CASE FirstByte
    <2>1. \A b : ~ ByteRead(b)
        BY <1>1 DEF ByteRead
    <2>2. \/ IntrRead /\ Wait("top")
          \/ EofRead /\ at' = "over" /\ UNCHANGED keys
        BY <1>4, <2>1 DEF FirstByte
    <2>3. UNCHANGED <<typed, wire, gone>>
        BY <1>4 DEF FirstByte, console
    <2> QED
        BY <1>2, <2>2, <2>3 DEF IntrRead, EofRead, Wait
<1>5. CASE Signal
    BY <1>1, <1>2, <1>5 DEF Signal, parser
<1>6. CASE UNCHANGED vars
    BY <1>1, <1>2, <1>6 DEF vars
<1> QED
    BY <1>1, <1>3, <1>4, <1>5, <1>6
       DEF Next, SecondByte, CsiByte, Ss3Byte, Press, Arrive, Hangup

LEMMA Misled == ASSUME [Next]_vars, misled PROVE misled'
<1>1. ASSUME EofRead \/ IntrRead \/ (\E b : ByteRead(b)) \/ misled' = misled PROVE misled'
    BY <1>1, Zenon DEF EofRead, IntrRead, ByteRead
<1>2. CASE FirstByte
    BY <1>1, <1>2, Zenon DEF FirstByte
<1>3. CASE SecondByte
    BY <1>1, <1>3, Zenon DEF SecondByte, ReadOn
<1>4. CASE CsiByte
    BY <1>1, <1>4, Zenon DEF CsiByte, ReadOn
<1>5. CASE Ss3Byte
    BY <1>1, <1>5, Zenon DEF Ss3Byte, ReadOn
<1>6. CASE CheckSignal \/ (\E s \in Strokes : Press(s)) \/ Arrive \/ Signal \/ Hangup
    BY <1>1, <1>6 DEF CheckSignal, Press, Arrive, Signal, Hangup, parser
<1>7. CASE UNCHANGED vars
    BY <1>1, <1>7 DEF vars
<1> QED
    BY <1>2, <1>3, <1>4, <1>5, <1>6, <1>7 DEF Next

LEMMA KeyStep == ASSUME Known(Nat), StrokeInv, [Next]_vars PROVE StrokeInv'
<1>1. InputType'
    BY TypeStep DEF StrokeInv
<1>2. SUFFICES ASSUME ~ misled' PROVE KeyInv' \/ Cut'
    BY <1>1 DEF StrokeInv
<1>3. KeyInv \/ Cut
    BY <1>2, Misled DEF StrokeInv
<1>4. CASE KeyInv
    <2>1. CASE CheckSignal
        BY <1>1, <1>4, <2>1, Frame DEF CheckSignal, console
    <2>2. CASE Signal
        BY <1>1, <1>4, <2>2, Frame DEF Signal, parser
    <2>3. CASE Hangup
        BY <1>1, <1>4, <2>3, Frame DEF Hangup, parser
    <2>4. CASE UNCHANGED vars
        BY <1>1, <1>4, <2>4, Frame DEF vars
    <2> QED
        BY <1>1, <1>2, <1>4, <2>1, <2>2, <2>3, <2>4,
           KeyFirst, KeySecond, KeyCsi, KeySs3, KeyPress, KeyArrive DEF Next
<1> QED
    BY <1>3, <1>4, CutStep

LEMMA KeyInit == Init => StrokeInv
<1> SUFFICES ASSUME Init PROVE StrokeInv
    OBVIOUS
<1>1. /\ typed = <<>> /\ queue = <<>> /\ keys = <<>> /\ pending = "none" /\ at = "top"
      /\ queue \o wire = queue /\ Len(typed) = 0 /\ Len(queue) = 0 /\ Len(keys) = 0
    BY EmptySeq DEF Init
<1> DEFINE ss == [j \in 1 .. 0 |-> CHOOSE s \in Strokes : TRUE]
           zero == [j \in 0 .. 0 |-> 0]
<1>2. ss \in [1 .. 0 -> Strokes] /\ zero \in [0 .. 0 -> 0 .. 0] /\ zero \in [0 .. 0 -> Nat]
      /\ zero[0] = 0
    OBVIOUS
<1> HIDE DEF ss, zero
<1>3. Matches(ss)
    BY <1>1, <1>2 DEF Matches
<1>4. Stream(0, queue, ss, zero, zero)
    BY <1>1, <1>2 DEF Stream, Size
<1>5. Reads(ss, 0, 0)
    BY <1>1, <1>2, <1>4 DEF Reads, Reading
<1>6. Between(ss, 0, 0)
    BY <1>1 DEF Between, Size
<1> QED
    BY <1>1, <1>3, <1>5, <1>6, TypeInit DEF StrokeInv, KeyInv, Parsed

\* The keys that come out are the keys that were pressed, whole and in order,
\* wherever signals fall, between two bytes of a key too, until read_byte gives up
\* a terminal that is there or the terminal goes in the middle of a key: for every
\* keyboard of keys as read_key can tell them apart, whose parameters may be any
\* numbers, and any number of keys and signals.
THEOREM KeysAreStrokesHolds == Known(Nat) => (Spec => []KeysAreStrokes)
<1> SUFFICES ASSUME Known(Nat) PROVE Spec => []KeysAreStrokes
    OBVIOUS
<1>1. StrokeInv /\ [Next]_vars => StrokeInv'
    BY KeyStep
<1>2. StrokeInv => KeysAreStrokes
    BY KeysFollow
<1> QED
    BY <1>1, <1>2, KeyInit, PTL DEF Spec
=============================================================================

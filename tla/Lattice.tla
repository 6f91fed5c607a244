------------------------------ MODULE Lattice ------------------------------
(***************************************************************************)
(* One time step of the D2Q9 lattice, written twice in the code: as the    *)
(* composition of array operations that is the oracle (boundaries.py,      *)
(* obstacle.py, numpy_oracle.py, forces.py) and as the fused kernels that  *)
(* run the sweeps (_warp_backend.py, kernels.py).                          *)
(*                                                                         *)
(* Streaming only moves populations, so it is modelled by where the        *)
(* population of each place comes from: <<"from", y, x, d>>, or one of the *)
(* boundary formulas with the places it reads.  The formulas themselves    *)
(* are checked at one node, on integer populations scaled so that no       *)
(* division is left.                                                       *)
(***************************************************************************)
EXTENDS Integers, FiniteSets, FiniteSetsExt

CONSTANTS
    NX, NY,         \* the grid
    Sponge,         \* the columns of the outlet sponge, which holds no obstacle
    U,              \* the inlet velocity is a multiple of one part in U
    Tile,           \* the links of one tile of the force reduction
    Omega           \* the relaxation rate, in halves

ASSUME LatticeAssumption ==
    /\ NX \in Nat /\ NY \in Nat /\ NY >= 5 /\ Sponge \in 3 .. NX - 1
    /\ U \in Nat \ {0} /\ Tile \in Nat \ {0} /\ Omega \in 1 .. 4

Directions == 0 .. 8
Rows == 0 .. NY - 1
Columns == 0 .. NX - 1
Places == Rows \X Columns \X Directions

\* The tables of the oracle.
VelocityTable == << <<0, 0>>, <<1, 0>>, <<0, 1>>, <<-1, 0>>, <<0, -1>>,
                    <<1, 1>>, <<-1, 1>>, <<-1, -1>>, <<1, -1>> >>
WeightTable == <<16, 4, 4, 4, 4, 1, 1, 1, 1>>      \* in parts of 36
OppositeTable == <<0, 3, 4, 1, 2, 7, 8, 5, 6>>
Cx(d) == VelocityTable[d + 1][1]
Cy(d) == VelocityTable[d + 1][2]
Weight(d) == WeightTable[d + 1]
Opposite(d) == OppositeTable[d + 1]

\* The tables of the kernels, which are functions there.
KernelX(d) == IF d \in {1, 5, 8} THEN 1 ELSE IF d \in {3, 6, 7} THEN -1 ELSE 0
KernelY(d) == IF d \in {2, 5, 6} THEN 1 ELSE IF d \in {4, 7, 8} THEN -1 ELSE 0
KernelOpposite(d) ==
    CASE d \in {1, 2} -> d + 2 [] d \in {3, 4} -> d - 2
      [] d \in {5, 6} -> d + 2 [] d \in {7, 8} -> d - 2 [] OTHER -> 0

From(y, x, d) == <<"from", y, x, d>>

\* The populations that the inlet formulas read, and those that arrive from outside.
Known == {0, 2, 3, 4, 6, 7}
Unknown == {1, 5, 8}
Leaving == {3, 6, 7}

\* Obstacles that geometry preflight and the sponge check accept: a fluid column on each
\* side of the inlet pull, a fluid row along each wall, and nothing in the sponge.
Clear(mask) == \A cell \in mask : cell[1] \in 2 .. NY - 3 /\ cell[2] \in 2 .. NX - Sponge - 1

-----------------------------------------------------------------------------
(* The oracle.                                                             *)

Rolled(y, x, d) == From((y - Cy(d)) % NY, (x - Cx(d)) % NX, d)

\* pull_stream_halfway_walls_numpy: periodic in x, half-way bounce-back at the walls; the
\* outer rows are not fluid and stay as they are.
Walled(y, x, d) ==
    CASE y \in {0, NY - 1} -> From(y, x, d)
      [] y = 1 /\ Cy(d) = 1 -> From(y, x, Opposite(d))
      [] y = NY - 2 /\ Cy(d) = -1 -> From(y, x, Opposite(d))
      [] OTHER -> Rolled(y, x, d)

\* apply_inlet_outlet_numpy: all of an inlet node is rebuilt away from the walls, and only
\* what no wall owns next to them; the outlet takes what enters it from its neighbour.
Bounded(y, x, d) ==
    IF y \notin 1 .. NY - 2 THEN Walled(y, x, d)
    ELSE IF x = 0 /\ y \in 2 .. NY - 3
    THEN <<"regularized", d, [k \in Known |-> Walled(y, 0, k)]>>
    ELSE IF x = 0 /\ (d = 1 \/ (d = 5 /\ y # 1) \/ (d = 8 /\ y # NY - 2))
    THEN <<"zou_he", d, [k \in Known |-> Walled(y, 0, k)]>>
    ELSE IF x = NX - 1 /\ d \in Leaving /\ ~(y = 1 /\ d = 6) /\ ~(y = NY - 2 /\ d = 7)
    THEN <<"outlet", d, [k \in Directions |-> Walled(y, NX - 2, k)]>>
    ELSE Walled(y, x, d)

\* enumerate_obstacle_links: every link from a fluid node to a solid one inside the grid.
Links(mask) ==
    {place \in Rows \X Columns \X (Directions \ {0}) :
        /\ <<place[1], place[2]>> \notin mask
        /\ <<place[1] + Cy(place[3]), place[2] + Cx(place[3])>> \in mask}

\* apply_obstacle_bounce_back_numpy: solid nodes keep their populations and every link
\* sends its population back.
OracleStep(mask, y, x, d) ==
    CASE <<y, x>> \in mask -> From(y, x, d)
      [] <<y, x, Opposite(d)>> \in Links(mask) -> From(y, x, Opposite(d))
      [] OTHER -> Bounded(y, x, d)

\* channel_boundary_ownership, for a channel without an obstacle.
Owner(y, x, d) ==
    IF y = 0 THEN "lower_wall"
    ELSE IF y = NY - 1 THEN "upper_wall"
    ELSE IF y \in 2 .. NY - 3 /\ x = 0 THEN "inlet"
    ELSE IF y = 1 /\ Cy(d) = 1 THEN "lower_wall"
    ELSE IF y = NY - 2 /\ Cy(d) = -1 THEN "upper_wall"
    ELSE IF x = 0 /\ Cx(d) = 1 THEN "inlet"
    ELSE IF x = NX - 1 /\ Cx(d) = -1 THEN "outlet"
    ELSE "interior"

\* momentum_exchange_force: what a link gives the obstacle, and the tiles it is summed in.
Exchange(mask, place) ==
    IF place \in Links(mask) THEN <<2 * Cx(place[3]), 2 * Cy(place[3])>> ELSE <<0, 0>>

TileStops(count) == {start \in 0 .. count - 1 : start % Tile = 0}
TileOf(start, count) == start .. Min({start + Tile, count}) - 1

-----------------------------------------------------------------------------
(* The kernels.                                                            *)

\* Mutant: the pull looks for solid at the node it writes, not where it reads.
PullOwnCell(mask, y, x, d) ==
    LET sy == y - KernelY(d)  sx == x - KernelX(d) IN
    IF <<y, x>> \in mask \/ sy <= 0 \/ sy >= NY - 1 THEN From(y, x, KernelOpposite(d))
    ELSE IF sx < 0 \/ sx >= NX THEN From(y, x, d) ELSE From(sy, sx, d)

\* _pull_channel: from a solid or wall source the population bounces back, and from
\* outside the columns the own one is kept for the boundary formula to replace.
Pull(mask, y, x, d) ==
    LET sy == y - KernelY(d)  sx == x - KernelX(d) IN
    IF <<sy, sx>> \in mask \/ sy <= 0 \/ sy >= NY - 1 THEN From(y, x, KernelOpposite(d))
    ELSE IF sx < 0 \/ sx >= NX THEN From(y, x, d) ELSE From(sy, sx, d)

\* channel_boundaries_kernel: obstacle, walls, inlet and outlet in one pass.
KernelStep(mask, y, x, d) ==
    IF y \in {0, NY - 1} \/ <<y, x>> \in mask THEN From(y, x, d)
    ELSE IF x = 0 /\ y > 1 /\ y < NY - 2
    THEN <<"regularized", d, [k \in Known |-> Pull(mask, y, 0, k)]>>
    ELSE IF x = 0 /\ (d = 1 \/ (d = 5 /\ y # 1) \/ (d = 8 /\ y # NY - 2))
    THEN <<"zou_he", d, [k \in Known |-> Pull(mask, y, 0, k)]>>
    ELSE IF x = NX - 1 /\ (d = 3 \/ (d = 6 /\ y # 1) \/ (d = 7 /\ y # NY - 2))
    THEN <<"outlet", d, [k \in Directions |-> Pull(mask, y, NX - 2, k)]>>
    ELSE Pull(mask, y, x, d)

\* pull_stream_periodic_kernel.
KernelPeriodic(y, x, d) == From((y - KernelY(d) + NY) % NY, (x - KernelX(d) + NX) % NX, d)

-----------------------------------------------------------------------------
(* What streaming promises.                                                *)

Fluid(mask) == {p \in Places : p[1] \in 1 .. NY - 2 /\ <<p[1], p[2]>> \notin mask}

\* Both implementations give every place the same population, or the same formula on the
\* same populations.
StepsAgree(mask) ==
    \A p \in Places :
        /\ KernelStep(mask, p[1], p[2], p[3]) = OracleStep(mask, p[1], p[2], p[3])
        /\ KernelPeriodic(p[1], p[2], p[3]) = Rolled(p[1], p[2], p[3])

\* A population of the fluid arrives at exactly one place, unless it reaches the first or
\* the last column, and what changes its direction is the force on the obstacle or a wall.
NothingIsLost(mask) ==
    LET step == [q \in Places |-> KernelStep(mask, q[1], q[2], q[3])] IN
    \A p \in Fluid(mask) :
        LET arrivals == {q \in Places : step[q] = From(p[1], p[2], p[3])}
            stays == p[2] + Cx(p[3]) \in 1 .. NX - 2 /\ p[2] \in 1 .. NX - 2
            walled == p[1] + Cy(p[3]) \in {0, NY - 1}
        IN  /\ Cardinality(arrivals) <= 1
            /\ stays => Cardinality(arrivals) = 1
            /\ \A q \in arrivals : stays /\ ~walled =>
                  <<Cx(p[3]) - Cx(q[3]), Cy(p[3]) - Cy(q[3])>> = Exchange(mask, p)

\* The ownership table says which rule decides each place.
OwnersAreReal ==
    \A p \in Places :
        LET term == OracleStep({}, p[1], p[2], p[3])
            back == From(p[1], p[2], Opposite(p[3]))
        IN  CASE Owner(p[1], p[2], p[3]) = "inlet" -> term[1] \in {"regularized", "zou_he"}
              [] Owner(p[1], p[2], p[3]) = "outlet" -> term[1] = "outlet"
              [] Owner(p[1], p[2], p[3]) = "interior" -> term = Rolled(p[1], p[2], p[3])
              [] OTHER -> term = IF p[1] \in {0, NY - 1} THEN From(p[1], p[2], p[3]) ELSE back

\* Every link is reduced in one tile.
TilesPartition(count) ==
    \A index \in 0 .. count - 1 :
        Cardinality({start \in TileStops(count) : index \in TileOf(start, count)}) = 1

StreamingIsExact(mask) ==
    /\ StepsAgree(mask) /\ NothingIsLost(mask) /\ OwnersAreReal
    /\ TilesPartition(Cardinality(Links(mask)))

-----------------------------------------------------------------------------
(* The formulas at one node, whose populations f are integers.             *)

\* Over the nine directions.
DirectionSum(g(_)) == g(0) + g(1) + g(2) + g(3) + g(4) + g(5) + g(6) + g(7) + g(8)

\* macroscopic_moments and macroscopic_kernel; the momentum is not divided.
Density(f) == DirectionSum(LAMBDA d : f[d])
MomentumX(f) == DirectionSum(LAMBDA d : Cx(d) * f[d])
MomentumY(f) == DirectionSum(LAMBDA d : Cy(d) * f[d])

\* equilibrium and _feq, in parts of 72 rho.
Equilibrium(d, rho, mx, my) ==
    LET cm == Cx(d) * mx + Cy(d) * my
    IN  Weight(d) * (2 * rho * rho + 6 * rho * cm + 9 * cm * cm - 3 * (mx * mx + my * my))

\* collide_numpy and collision_kernel, in parts of 144 rho.
Collided(f, d) ==
    72 * Density(f) * (2 - Omega) * f[d]
    + Omega * Equilibrium(d, Density(f), MomentumX(f), MomentumY(f))

\* _zou_he_provisional for the inlet velocity a/U: the populations that arrive from
\* outside follow from the others, all in parts of 6(U - a).
Inflow(f) == f[0] + f[2] + f[4] + 2 * (f[3] + f[6] + f[7])
InletDensity(f) == 6 * U * Inflow(f)
Provisional(f, a, d) ==
    CASE d = 1 -> 6 * (U - a) * f[3] + 4 * a * Inflow(f)
      [] d = 5 -> 6 * (U - a) * f[7] + 3 * (U - a) * (f[4] - f[2]) + a * Inflow(f)
      [] d = 8 -> 6 * (U - a) * f[6] + 3 * (U - a) * (f[2] - f[4]) + a * Inflow(f)
      [] OTHER -> 6 * (U - a) * f[d]

\* _regularize: equilibrium at the inlet velocity, and of the rest only its stress; the
\* parts are further divided by 72 U^2, and Regularized by 24.
InletEquilibrium(f, a, d) ==
    Weight(d) * InletDensity(f)
        * (2 * U * U + 6 * U * Cx(d) * a + 9 * Cx(d) * Cx(d) * a * a - 3 * a * a)
Residual(f, a, d) == 72 * U * U * Provisional(f, a, d) - InletEquilibrium(f, a, d)
Stress(f, a) ==
    [xx |-> DirectionSum(LAMBDA d : Cx(d) * Cx(d) * Residual(f, a, d)),
     xy |-> DirectionSum(LAMBDA d : Cx(d) * Cy(d) * Residual(f, a, d)),
     yy |-> DirectionSum(LAMBDA d : Cy(d) * Cy(d) * Residual(f, a, d))]

\* The sums that channel_boundaries_kernel writes out.
KernelStress(f, a) ==
    LET n == [d \in Directions |-> Residual(f, a, d)]
    IN  [xx |-> n[1] + n[3] + n[5] + n[6] + n[7] + n[8],
         xy |-> n[5] - n[6] + n[7] - n[8],
         yy |-> n[2] + n[4] + n[5] + n[6] + n[7] + n[8]]

Regularized(f, a, d) ==
    LET pi == Stress(f, a)
    IN  24 * InletEquilibrium(f, a, d)
        + Weight(d) * ((3 * Cx(d) * Cx(d) - 1) * pi.xx + 6 * Cx(d) * Cy(d) * pi.xy
                       + (3 * Cy(d) * Cy(d) - 1) * pi.yy)

\* A collision keeps mass and momentum.  The inlet keeps the mass that its known
\* populations imply, moves exactly at the prescribed velocity, and keeps the stress.
NodesAreExact(f, a) ==
    LET rho == Density(f)
        reg == [d \in Directions |-> Regularized(f, a, d)]
        pro == [d \in Directions |-> Provisional(f, a, d)]
        part == 24 * 72 * U * U
    IN  /\ DirectionSum(LAMBDA d : Collided(f, d)) = 144 * rho * rho
        /\ DirectionSum(LAMBDA d : Cx(d) * Collided(f, d)) = 144 * rho * MomentumX(f)
        /\ DirectionSum(LAMBDA d : Cy(d) * Collided(f, d)) = 144 * rho * MomentumY(f)
        /\ DirectionSum(LAMBDA d : pro[d]) = InletDensity(f)
        /\ DirectionSum(LAMBDA d : reg[d]) = part * InletDensity(f)
        /\ U * DirectionSum(LAMBDA d : Cx(d) * reg[d]) = part * InletDensity(f) * a
        /\ DirectionSum(LAMBDA d : Cy(d) * reg[d]) = 0
        /\ DirectionSum(LAMBDA d : Cx(d) * Cy(d) * reg[d])
              = part * DirectionSum(LAMBDA d : Cx(d) * Cy(d) * pro[d])
        /\ DirectionSum(LAMBDA d : Cx(d) * Cx(d) * reg[d])
              = part * DirectionSum(LAMBDA d : Cx(d) * Cx(d) * pro[d])
        /\ KernelStress(f, a) = Stress(f, a)
=============================================================================
